---- MODULE Spec2Model ----
(***************************************************************************)
(* Model of the authentication / session-token subsystem of the           *)
(* Fitness-PT backend: the JWT codec (utils.py), the purpose-scoped link   *)
(* token codec (utils.py), the in-memory revocation set and the bearer     *)
(* guards (dependencies.py), the auth routes (routes.py) and the coaching  *)
(* routes (coaching/routes.py) with their tables.                          *)
(*                                                                         *)
(* Time is counted in ticks of half a second, so that the truncation of a  *)
(* datetime to whole seconds (PyJWT encodes "exp" with timegm) is visible. *)
(* The clock is UTC; datetime.now() returns the host's naive local time,   *)
(* which is UTC plus the host's offset tz.                                 *)
(***************************************************************************)
EXTENDS Integers, FiniteSets, Sequences, TLC

VARIABLES
    now,              \* UTC clock, in ticks
    tz,               \* UTC offset of the host, in seconds (fixed per run)
    users,            \* the users table, keyed by email
    uuid_seq,         \* number of uuid4() values drawn so far
    issued,           \* JWTs the server has handed out, when, and in which pair
    links,            \* link tokens the server has made, and what became of the mail
    token_blacklist,  \* dependencies.py: token_blacklist
    codec,            \* the latest direct use of the token codec
    cleared,          \* token ids that were in token_blacklist when the process ended
    tasks,            \* requests being served concurrently, by task
    coaching,         \* the coaching tables, and the rows the latest read returned
    steps,            \* number of events (requests, clock, store) so far
    resp              \* the response to the latest request

vars ==
    <<now, tz, coaching, users, uuid_seq, issued, links, token_blacklist, codec, cleared,
      tasks, steps, resp>>

----------------------------------------------------------------------------
(* Bounds of the model *)

MaxSteps == 4
MaxHour == 1
MaxTasks == 2

(* Program constants *)

TicksPerSecond == 2
SecondsPerDay == 86400
ACCESS_TOKEN_EXPIRY == 3600
REFRESH_TOKEN_EXPIRY == 2
HTTP_200 == 200
HTTP_201 == 201
HTTP_400 == 400
HTTP_401 == 401
HTTP_403 == 403
HTTP_404 == 404
HTTP_409 == 409
HTTP_500 == 500

JWT_SECRET == "your-super-secret-jwt-key-change-this-in-production"
AttackerKey == "attacker-key"

Emails == {"a@x.com", "b@x.com"}
Roles == {"user", "admin"}
\* Passwords, as sequences of characters.
StrongPassword == <<"S", "t", "r", "0", "n", "g", "!", "P">>
OtherPassword == <<"N", "e", "w", "P", "a", "s", "s", "1", "#">>
WeakPassword == <<"w", "e", "a", "k">>
PlainPassword == <<"P", "a", "s", "s", "w", "o", "r", "d", "1">>
Passwords == {StrongPassword, WeakPassword}

\* Host offsets from UTC, in seconds: one access-token lifetime (an hour) west,
\* UTC itself, and an hour east.
TzOffsets == {0 - ACCESS_TOKEN_EXPIRY, 0, ACCESS_TOKEN_EXPIRY}

\* timedelta(days=REFRESH_TOKEN_EXPIRY), in seconds.
RefreshLifetime == REFRESH_TOKEN_EXPIRY * SecondsPerDay

\* The instants the clock visits, in ticks: the first hours after the start
\* (an hour is the lifetime of an access token), and the end of the lifetime
\* of a refresh token issued at the start.
Instants ==
    { h * ACCESS_TOKEN_EXPIRY * TicksPerSecond : h \in 0..MaxHour } \cup
    { RefreshLifetime * TicksPerSecond }

----------------------------------------------------------------------------
(* Values *)

None == [none |-> TRUE]
NoCred == [nocred |-> TRUE]
NoRole == "<absent>"

NoUser ==
    [exists |-> FALSE, uid |-> 0, password_hash |-> <<"bcrypt", <<>>>>,
     role |-> "user", is_verified |-> FALSE]

\* passlib bcrypt: the hash verifies exactly the password it was made from.
generate_passwd_hash(password) == <<"bcrypt", password>>
verify_password(password, hash) == hash = <<"bcrypt", password>>

\* HMAC signature: equal exactly for the same key and the same signed content.
Sign(key, content) == <<key, content>>

----------------------------------------------------------------------------
(* Token codec: utils.py create_access_token / decode_token *)

\* datetime.now(): naive local wall clock, in ticks.
LocalNow(t, offset) == t + offset * TicksPerSecond

\* jwt.encode turns a datetime "exp" into timegm(exp.utctimetuple()): the naive
\* value is read as UTC and cut to whole seconds.
ExpClaim(t, offset, lifetime) ==
    (LocalNow(t, offset) + lifetime * TicksPerSecond) \div TicksPerSecond

\* expiry: timedelta = None; a lifetime in seconds, or NoExpiry for the default.
NoExpiry == 0 - 1
Lifetime(expiry) == IF expiry # NoExpiry THEN expiry ELSE ACCESS_TOKEN_EXPIRY

create_access_token(user_data, expiry, refresh, t, offset, jti) ==
    LET payload == [user |-> user_data,
                    exp |-> ExpClaim(t, offset, Lifetime(expiry)),
                    jti |-> jti,
                    refresh |-> refresh]
    IN  [segments |-> 3, payload |-> payload, sig |-> Sign(JWT_SECRET, payload)]

\* PyJWT 2.x _validate_exp: expired when exp <= now (now a float of seconds).
Expired(exp, t) == exp * TicksPerSecond <= t

\* Mutant: the payload is read without verifying the signature.
decode_token_NoSignatureCheck(token, t) ==
    IF token.segments # 3 THEN None
    ELSE IF Expired(token.payload.exp, t) THEN None
    ELSE token.payload

decode_token(token, t) ==
    IF token.segments # 3 THEN None
    ELSE IF token.sig # Sign(JWT_SECRET, token.payload) THEN None
    ELSE IF Expired(token.payload.exp, t) THEN None
    ELSE token.payload

----------------------------------------------------------------------------
(* Link token codec: utils.py create_url_safe_token / decode_url_safe_token *)

\* URLSafeTimedSerializer(secret_key, salt): the signing key is derived from
\* the secret and the salt.
email_verification_serializer ==
    [secret_key |-> JWT_SECRET, salt |-> "email-verification"]
password_reset_serializer ==
    [secret_key |-> JWT_SECRET, salt |-> "password-reset"]

\* time.time() cut to whole seconds: the timestamp itsdangerous signs.
Timestamp(t) == t \div TicksPerSecond

\* serializer.dumps(data): the payload, the timestamp and their signature.
dumps(serializer, data, t) ==
    [payload |-> data, ts |-> Timestamp(t),
     sig |-> Sign(<<serializer.secret_key, serializer.salt>>,
                  <<data, Timestamp(t)>>)]

\* serializer.loads(token, max_age): BadSignature or SignatureExpired give None
\* here; the age is checked only when a max_age is given.
NoMaxAge == 0 - 1
loads(serializer, token, max_age, t) ==
    IF token.sig # Sign(<<serializer.secret_key, serializer.salt>>,
                        <<token.payload, token.ts>>)
    THEN None
    ELSE IF max_age # NoMaxAge /\ Timestamp(t) - token.ts > max_age THEN None
    ELSE token.payload

\* Mutant: one serializer, hence one salt, for both purposes.
SerializerFor_OneSalt(purpose) == email_verification_serializer

SerializerFor(purpose) ==
    IF purpose = "email-verification" THEN email_verification_serializer
    ELSE password_reset_serializer

create_url_safe_token(data, purpose, t) == dumps(SerializerFor(purpose), data, t)

\* The code calls serializer.loads(token) with no max_age.
decode_url_safe_token(token, purpose, t) ==
    loads(SerializerFor(purpose), token, NoMaxAge, t)

\* validate_password_strength
UpperChars ==
    {"A", "B", "C", "D", "E", "F", "G", "H", "I", "J", "K", "L", "M", "N", "O",
     "P", "Q", "R", "S", "T", "U", "V", "W", "X", "Y", "Z"}
LowerChars ==
    {"a", "b", "c", "d", "e", "f", "g", "h", "i", "j", "k", "l", "m", "n", "o",
     "p", "q", "r", "s", "t", "u", "v", "w", "x", "y", "z"}
DigitChars == {"0", "1", "2", "3", "4", "5", "6", "7", "8", "9"}
SpecialChars ==
    {"!", "@", "#", "$", "%", "^", "&", "*", "(", ")", ",", ".", "?", "\"", ":",
     "{", "}", "|", "<", ">"}
HasChar(password, chars) == \E i \in 1..Len(password) : password[i] \in chars
validate_password_strength(password) ==
    /\ Len(password) >= 8
    /\ HasChar(password, UpperChars)
    /\ HasChar(password, LowerChars)
    /\ HasChar(password, DigitChars)
    /\ HasChar(password, SpecialChars)

----------------------------------------------------------------------------
(* Bearer guards: dependencies.py *)

Reject(status, detail) ==
    [ok |-> FALSE, status |-> status, detail |-> detail, data |-> None]
Pass(data) ==
    [ok |-> TRUE, status |-> HTTP_200, detail |-> "", data |-> data]

\* fastapi.security.HTTPBearer with auto_error=True answers a request without
\* an "Authorization: Bearer" header itself; the status is 403 in the FastAPI
\* releases up to 0.121 and 401 after.
BearerMissingStatuses == {HTTP_401, HTTP_403}

\* Mutant: the guard without its blacklist lookup.
AccessTokenBearer_NoRevocationCheck(cred, t, blacklist, missing) ==
    IF cred = NoCred THEN Reject(missing, "Not authenticated")
    ELSE LET token_data == decode_token(cred, t) IN
         IF token_data = None
         THEN Reject(HTTP_401, "Invalid or expired token")
         ELSE IF token_data.refresh
         THEN Reject(HTTP_401, "Please provide an access token")
         ELSE Pass(token_data)

AccessTokenBearer(cred, t, blacklist, missing) ==
    IF cred = NoCred THEN Reject(missing, "Not authenticated")
    ELSE LET token_data == decode_token(cred, t) IN
         IF token_data = None
         THEN Reject(HTTP_401, "Invalid or expired token")
         ELSE IF token_data.refresh
         THEN Reject(HTTP_401, "Please provide an access token")
         ELSE IF token_data.jti \in blacklist
         THEN Reject(HTTP_401, "Token has been revoked")
         ELSE Pass(token_data)

\* Mutant: the guard without its token-type check.
RefreshTokenBearer_NoTypeCheck(cred, t, missing) ==
    IF cred = NoCred THEN Reject(missing, "Not authenticated")
    ELSE LET token_data == decode_token(cred, t) IN
         IF token_data = None
         THEN Reject(HTTP_401, "Invalid or expired token")
         ELSE Pass(token_data)

RefreshTokenBearer(cred, t, missing) ==
    IF cred = NoCred THEN Reject(missing, "Not authenticated")
    ELSE LET token_data == decode_token(cred, t) IN
         IF token_data = None
         THEN Reject(HTTP_401, "Invalid or expired token")
         ELSE IF ~token_data.refresh
         THEN Reject(HTTP_401, "Please provide a refresh token")
         ELSE Pass(token_data)

\* UserService.get_user_by_email: the row, or NoUser.
get_user_by_email(email, table) ==
    IF email \in DOMAIN table /\ table[email].exists THEN table[email] ELSE NoUser

\* Mutant: the identity is looked up from the token's email before the token
\* has gone through the bearer guard.
get_current_user_LookupFirst(cred, t, blacklist, table, missing) ==
    IF cred # NoCred /\ ~get_user_by_email(cred.payload.user.email, table).exists
    THEN Reject(HTTP_404, "User not found")
    ELSE LET token_details == AccessTokenBearer(cred, t, blacklist, missing) IN
         IF ~token_details.ok THEN token_details
         ELSE Pass([token |-> token_details.data,
                    email |-> token_details.data.user.email,
                    user |-> get_user_by_email(token_details.data.user.email, table)])

\* Mutant: the row is used without asking whether there is one.
get_current_user_NoLookup(cred, t, blacklist, table, missing) ==
    LET token_details == AccessTokenBearer(cred, t, blacklist, missing) IN
    IF ~token_details.ok THEN token_details
    ELSE Pass([token |-> token_details.data,
               email |-> token_details.data.user.email,
               user |-> get_user_by_email(token_details.data.user.email, table)])

get_current_user(cred, t, blacklist, table, missing) ==
    LET token_details == AccessTokenBearer(cred, t, blacklist, missing) IN
    IF ~token_details.ok THEN token_details
    ELSE LET user == get_user_by_email(token_details.data.user.email, table) IN
         IF ~user.exists THEN Reject(HTTP_404, "User not found")
         ELSE Pass([token |-> token_details.data,
                    email |-> token_details.data.user.email,
                    user |-> user])

\* Mutant: the role compared with the allow-list is the one in the token.
RoleChecker_TokenRole(allowed_roles, cred, t, blacklist, table, missing) ==
    LET current_user == get_current_user(cred, t, blacklist, table, missing) IN
    IF ~current_user.ok THEN current_user
    ELSE IF current_user.data.token.user.role \notin allowed_roles
    THEN Reject(HTTP_403, "Operation not permitted")
    ELSE current_user

\* Mutant: the role is not compared with the allow-list.
RoleChecker_Unchecked(allowed_roles, cred, t, blacklist, table, missing) ==
    get_current_user(cred, t, blacklist, table, missing)

RoleChecker(allowed_roles, cred, t, blacklist, table, missing) ==
    LET current_user == get_current_user(cred, t, blacklist, table, missing) IN
    IF ~current_user.ok THEN current_user
    ELSE IF current_user.data.user.role \notin allowed_roles
    THEN Reject(HTTP_403, "Operation not permitted")
    ELSE current_user

----------------------------------------------------------------------------
(* What a client can present as a bearer credential *)

\* Not three base64url segments: jwt.decode raises DecodeError.
Malformed == [segments |-> 1, payload |-> None, sig |-> <<>>]

\* An issued token with its type flag flipped and the old signature kept.
Tampered(token) == [token EXCEPT !.payload.refresh = ~@]

\* An admin's access token made up by a client and signed with a key that is
\* not the server's.
Forged ==
    LET payload == [user |-> [email |-> "a@x.com", user_uid |-> 1, role |-> "admin"],
                    exp |-> REFRESH_TOKEN_EXPIRY * RefreshLifetime,
                    jti |-> 1,
                    refresh |-> FALSE]
    IN  [segments |-> 3, payload |-> payload, sig |-> Sign(AttackerKey, payload)]

\* The tokens clients hold.
Held == { i.token : i \in issued }

Creds == {NoCred, Forged} \cup Held \cup { Tampered(k) : k \in Held }

\* A request's credential, and the status HTTPBearer gives when there is none.
BearerRequests ==
    { <<c, m>> \in Creds \X BearerMissingStatuses : c # NoCred => m = HTTP_403 }

----------------------------------------------------------------------------
(* Requests: routes.py *)

NoPair == [nopair |-> TRUE]
NoArg == [noarg |-> TRUE]
NoResp ==
    [n |-> 0, ep |-> "", cred |-> NoCred, arg |-> NoArg, status |-> 0,
     detail |-> "", pair |-> NoPair]

\* One more event, within the budget of the model.
Step ==
    /\ steps < MaxSteps
    /\ steps' = steps + 1

\* The response to the request handled in this step: the endpoint, the
\* credential, the body of the request where there is one, and the answer.
Respond(ep, cred, arg, status, detail, pair) ==
    /\ Step
    /\ resp' = [n |-> steps + 1, ep |-> ep, cred |-> cred, arg |-> arg,
                status |-> status, detail |-> detail, pair |-> pair]

\* Mutant: the refresh flags of the two tokens are exchanged.
IssuePair_Swapped(email, user) ==
    [access_token |->
        create_access_token(
            [email |-> email, user_uid |-> user.uid, role |-> user.role],
            NoExpiry, TRUE, now, tz, uuid_seq + 1),
     refresh_token |->
        create_access_token(
            [email |-> email, user_uid |-> user.uid],
            RefreshLifetime, FALSE, now, tz, uuid_seq + 2)]

\* Mutant: one uuid is drawn for the two tokens of a pair.
IssuePair_SameJti(email, user) ==
    [access_token |->
        create_access_token(
            [email |-> email, user_uid |-> user.uid, role |-> user.role],
            NoExpiry, FALSE, now, tz, uuid_seq + 1),
     refresh_token |->
        create_access_token(
            [email |-> email, user_uid |-> user.uid],
            RefreshLifetime, TRUE, now, tz, uuid_seq + 1)]

\* The pair login_user and refresh_token build for a user row.
IssuePair(email, user) ==
    [access_token |->
        create_access_token(
            [email |-> email, user_uid |-> user.uid, role |-> user.role],
            NoExpiry, FALSE, now, tz, uuid_seq + 1),
     refresh_token |->
        create_access_token(
            [email |-> email, user_uid |-> user.uid],
            RefreshLifetime, TRUE, now, tz, uuid_seq + 2)]

GivePair(ep, cred, arg, detail, pair) ==
    /\ issued' = issued \cup
          { [at |-> now, session |-> pair.access_token.payload.jti, token |-> k] :
              k \in {pair.access_token, pair.refresh_token} }
    /\ uuid_seq' = uuid_seq + 2
    /\ Respond(ep, cred, arg, HTTP_200, detail, pair)

\* Mutant: the login that does not look at is_verified.
login_user_NoVerifiedCheck(email, password) ==
    /\ steps < MaxSteps
    /\ LET user == get_user_by_email(email, users)
           arg == [email |-> email, password |-> password] IN
       IF ~user.exists \/ ~verify_password(password, user.password_hash)
       THEN /\ Respond("login", NoCred, arg, HTTP_401, "Invalid email or password",
                       NoPair)
            /\ UNCHANGED <<issued, uuid_seq>>
       ELSE GivePair("login", NoCred, arg, "Login successful", IssuePair(email, user))
    /\ UNCHANGED <<now, tz, coaching, users, links, token_blacklist, codec, cleared,
                 tasks>>

\* POST /login
login_user(email, password) ==
    /\ steps < MaxSteps
    /\ LET user == get_user_by_email(email, users)
           arg == [email |-> email, password |-> password] IN
       IF ~user.exists \/ ~verify_password(password, user.password_hash)
       THEN /\ Respond("login", NoCred, arg, HTTP_401, "Invalid email or password",
                       NoPair)
            /\ UNCHANGED <<issued, uuid_seq>>
       ELSE IF ~user.is_verified
       THEN /\ Respond("login", NoCred, arg, HTTP_403,
                       "Please verify your email before logging in", NoPair)
            /\ UNCHANGED <<issued, uuid_seq>>
       ELSE GivePair("login", NoCred, arg, "Login successful", IssuePair(email, user))
    /\ UNCHANGED <<now, tz, coaching, users, links, token_blacklist, codec, cleared,
                 tasks>>

\* POST /refresh
refresh_token(cred, missing) ==
    /\ steps < MaxSteps
    /\ LET token_details == RefreshTokenBearer(cred, now, missing) IN
       IF ~token_details.ok
       THEN /\ Respond("refresh", cred, NoArg, token_details.status,
                       token_details.detail, NoPair)
            /\ UNCHANGED <<issued, uuid_seq>>
       ELSE LET email == token_details.data.user.email
                user == get_user_by_email(email, users) IN
            IF ~user.exists
            THEN /\ Respond("refresh", cred, NoArg, HTTP_404, "User not found", NoPair)
                 /\ UNCHANGED <<issued, uuid_seq>>
            ELSE IF ~user.is_verified
            THEN /\ Respond("refresh", cred, NoArg, HTTP_403,
                            "Please verify your email before using the service",
                            NoPair)
                 /\ UNCHANGED <<issued, uuid_seq>>
            ELSE GivePair("refresh", cred, NoArg, "", IssuePair(email, user))
    /\ UNCHANGED <<now, tz, coaching, users, links, token_blacklist, codec, cleared,
                 tasks>>

\* Mutant: an id that is already in the registry is taken out again.
add_jti_to_blocklist_Toggle(blacklist, jti) ==
    IF jti \in blacklist THEN blacklist \ {jti} ELSE blacklist \cup {jti}

\* Mutant: the registry is replaced by a set that holds the new id alone.
add_jti_to_blocklist_Replace(blacklist, jti) == {jti}

\* add_jti_to_blocklist
add_jti_to_blocklist(blacklist, jti) == blacklist \cup {jti}

\* POST /logout. The HTTPException(400) raised for a token without a jti is
\* raised inside the try block and caught by "except Exception", which answers 500.
logout(cred, missing) ==
    /\ steps < MaxSteps
    /\ LET token_details == AccessTokenBearer(cred, now, token_blacklist, missing) IN
       IF ~token_details.ok
       THEN /\ Respond("logout", cred, NoArg, token_details.status,
                       token_details.detail, NoPair)
            /\ UNCHANGED token_blacklist
       ELSE IF token_details.data.jti = 0
       THEN /\ Respond("logout", cred, NoArg, HTTP_500, "Failed to logout", NoPair)
            /\ UNCHANGED token_blacklist
       ELSE /\ token_blacklist' =
                   add_jti_to_blocklist(token_blacklist, token_details.data.jti)
            /\ Respond("logout", cred, NoArg, HTTP_200, "Logged out successfully",
                       NoPair)
    /\ UNCHANGED <<now, tz, coaching, users, uuid_seq, issued, links, codec, cleared,
                 tasks>>

\* role_checker = RoleChecker(["admin", "user"])
role_checker_roles == {"admin", "user"}

\* GET /me
get_current_user_profile(cred, missing) ==
    /\ steps < MaxSteps
    /\ LET checked == RoleChecker(role_checker_roles, cred, now, token_blacklist,
                                  users, missing) IN
       IF ~checked.ok
       THEN Respond("me", cred, NoArg, checked.status, checked.detail, NoPair)
       ELSE Respond("me", cred, NoArg, HTTP_200, checked.data.email, NoPair)
    /\ UNCHANGED <<now, tz, coaching, users, uuid_seq, issued, links, token_blacklist, codec, cleared,
                 tasks>>

\* RoleChecker(["admin"])
admin_roles == {"admin"}
RequestedRoles == {"user", "admin", "coach"}

\* UserService.set_user_role
service_set_user_role(table, email, role) == [table EXCEPT ![email].role = role]

\* POST /set-role/{user_email}
set_user_role(cred, missing, user_email, role) ==
    /\ steps < MaxSteps
    /\ LET checked == RoleChecker(admin_roles, cred, now, token_blacklist, users,
                                  missing) IN
       IF ~checked.ok
       THEN /\ Respond("set-role", cred, NoArg, checked.status, checked.detail,
                       NoPair)
            /\ UNCHANGED users
       ELSE IF role \notin {"user", "admin"}
       THEN /\ Respond("set-role", cred, NoArg, HTTP_400, "Invalid role specified",
                       NoPair)
            /\ UNCHANGED users
       ELSE IF ~get_user_by_email(user_email, users).exists
       THEN /\ Respond("set-role", cred, NoArg, HTTP_404, "User not found", NoPair)
            /\ UNCHANGED users
       ELSE /\ users' = service_set_user_role(users, user_email, role)
            /\ Respond("set-role", cred, NoArg, HTTP_200, user_email, NoPair)
    /\ UNCHANGED <<now, tz, coaching, uuid_seq, issued, links, token_blacklist, codec, cleared,
                 tasks>>

----------------------------------------------------------------------------
(* Environment *)

\* Time passes.
Tick(t) ==
    /\ Step
    /\ t > now
    /\ now' = t
    /\ UNCHANGED <<tz, coaching, users, uuid_seq, issued, links, token_blacklist, codec, cleared,
                 tasks, resp>>

\* The user store is an external database: a row can be removed from outside
\* the API (no route deletes a user).
ExternalDeleteUser(email) ==
    /\ Step
    /\ users[email].exists
    /\ users' = [users EXCEPT ![email] = NoUser]
    /\ UNCHANGED <<now, tz, coaching, uuid_seq, issued, links, token_blacklist, codec, cleared,
                 tasks, resp>>

----------------------------------------------------------------------------
(* The session specification: a database seeded with two accounts *)

SeededUser(uid, role, verified) ==
    [exists |-> TRUE, uid |-> uid,
     password_hash |-> generate_passwd_hash(StrongPassword),
     role |-> role, is_verified |-> verified]

\* An admin and an ordinary user, both verified.
SeededStore ==
    [e \in Emails |-> IF e = "a@x.com" THEN SeededUser(1, "admin", TRUE)
                                       ELSE SeededUser(2, "user", TRUE)]

NoCodec == [used |-> FALSE]

\* Empty coaching tables.
NoCoaching == [rows |-> {}, returned |-> {}]

\* No request is being served.
IdleTask == [pc |-> "idle"]
NoTasks == [i \in 1..MaxTasks |-> IdleTask]

Init ==
    /\ now = 0
    /\ tz \in TzOffsets
    /\ coaching = NoCoaching
    /\ users = SeededStore
    /\ uuid_seq = 2
    /\ issued = {}
    /\ links = {}
    /\ token_blacklist = {}
    /\ codec = NoCodec
    /\ cleared = {}
    /\ tasks = NoTasks
    /\ steps = 0
    /\ resp = NoResp

Next ==
    \/ \E e \in Emails, p \in Passwords : login_user(e, p)
    \/ \E q \in BearerRequests : refresh_token(q[1], q[2])
    \/ \E q \in BearerRequests : logout(q[1], q[2])
    \/ \E q \in BearerRequests : get_current_user_profile(q[1], q[2])
    \/ \E q \in BearerRequests, e \in Emails, r \in RequestedRoles :
          set_user_role(q[1], q[2], e, r)
    \/ \E t \in Instants : Tick(t)
    \/ \E e \in Emails : ExternalDeleteUser(e)

Spec == Init /\ [][Next]_vars

----------------------------------------------------------------------------
(* The registry specification: the session specification, with the registry's *)
(* own operation open to any caller, for any token id that is in use.         *)

revoke(jti) ==
    /\ Step
    /\ token_blacklist' = add_jti_to_blocklist(token_blacklist, jti)
    /\ UNCHANGED <<now, tz, coaching, users, uuid_seq, issued, links, codec, cleared,
                 tasks, resp>>

NextRegistry ==
    \/ Next
    \/ \E k \in Held : revoke(k.payload.jti)

SpecRegistry == Init /\ [][NextRegistry]_vars

----------------------------------------------------------------------------
(* Account lifecycle requests: routes.py *)

\* The validity the mailed links announce: 24 hours for a verification link,
\* 1 hour for a password-reset link, in seconds.
VerificationMaxAge == SecondsPerDay
ResetMaxAge == ACCESS_TOKEN_EXPIRY

\* A link token with its timestamp altered and the old signature kept, and a
\* reset link signed with a key that is not the server's.
Restamped(token) == [token EXCEPT !.ts = @ + SecondsPerDay]
ForgedLink ==
    dumps([secret_key |-> AttackerKey, salt |-> "password-reset"],
          [email |-> "b@x.com"], 0)
LinkCreds ==
    {ForgedLink} \cup { l.token : l \in links }
                 \cup { Restamped(l.token) : l \in links }

\* What happens when the mail is handed to SMTP: it is sent, the connection or
\* the login raises, or no SMTP credentials are configured.
SmtpOutcomes == {"sent", "error", "unconfigured"}

\* send_email: True when the mail was sent or skipped for want of credentials,
\* False when sending raised.
send_email(smtp) == smtp # "error"

\* Mutant: the handler waits for the mail and fails when it was not sent.
add_task_Awaited(result, status) == IF result THEN status ELSE HTTP_500

\* bg_tasks.add_task(send_email, ...): the mail is sent after the response, and
\* what send_email returns goes nowhere.
add_task(result, status) == status

\* Mutant: the new row is given the role admin.
create_user_AsAdmin(table, email, password, uid) ==
    [table EXCEPT ![email] =
        [exists |-> TRUE, uid |-> uid,
         password_hash |-> generate_passwd_hash(password),
         role |-> "admin", is_verified |-> FALSE]]

\* UserService.create_user: role user, not verified, a fresh uid.
create_user(table, email, password, uid) ==
    [table EXCEPT ![email] =
        [exists |-> TRUE, uid |-> uid,
         password_hash |-> generate_passwd_hash(password),
         role |-> "user", is_verified |-> FALSE]]

\* POST /signup
create_user_account(email, password, smtp) ==
    /\ steps < MaxSteps
    /\ LET arg == [email |-> email, password |-> password] IN
       IF ~validate_password_strength(password)
       THEN /\ Respond("signup", NoCred, arg, HTTP_400, "Password must be stronger",
                       NoPair)
            /\ UNCHANGED <<users, uuid_seq, links>>
       ELSE IF get_user_by_email(email, users).exists
       THEN /\ Respond("signup", NoCred, arg, HTTP_409,
                       "User with this email already exists", NoPair)
            /\ UNCHANGED <<users, uuid_seq, links>>
       ELSE /\ users' = create_user(users, email, password, uuid_seq + 1)
            /\ uuid_seq' = uuid_seq + 1
            /\ links' = links \cup
                  {[purpose |-> "email-verification", mail |-> smtp,
                    token |-> create_url_safe_token([email |-> email],
                                                    "email-verification", now)]}
            /\ Respond("signup", NoCred, arg,
                       add_task(send_email(smtp), HTTP_201), "Account created!",
                       NoPair)
    /\ UNCHANGED <<now, tz, coaching, issued, token_blacklist, codec, cleared,
                 tasks>>

\* GET /verify/{token}
verify_email(token) ==
    /\ steps < MaxSteps
    /\ LET token_data == decode_url_safe_token(token, "email-verification", now) IN
       IF token_data = None
       THEN /\ Respond("verify", token, NoArg, HTTP_400, "Invalid or expired token.",
                       NoPair)
            /\ UNCHANGED users
       ELSE IF ~get_user_by_email(token_data.email, users).exists
       THEN /\ Respond("verify", token, NoArg, HTTP_404, "User not found.", NoPair)
            /\ UNCHANGED users
       ELSE /\ users' = [users EXCEPT ![token_data.email].is_verified = TRUE]
            /\ Respond("verify", token, NoArg, HTTP_200,
                       "Email verified successfully.", NoPair)
    /\ UNCHANGED <<now, tz, coaching, uuid_seq, issued, links, token_blacklist, codec, cleared,
                 tasks>>

\* Mutant: a request for an email without an account is answered 404.
request_password_reset_response_Revealing(user, smtp) ==
    IF ~user.exists
    THEN [status |-> HTTP_404, detail |-> "User not found"]
    ELSE [status |-> add_task(send_email(smtp), HTTP_200),
          detail |-> "If an account exists, password reset instructions have been sent"]

\* request_password_reset: what the client gets, for the row found (or not)
\* and for what becomes of the mail.
request_password_reset_response(user, smtp) ==
    IF ~user.exists
    THEN [status |-> HTTP_200,
          detail |-> "If an account exists, password reset instructions have been sent"]
    ELSE [status |-> add_task(send_email(smtp), HTTP_200),
          detail |-> "If an account exists, password reset instructions have been sent"]

\* POST /password-reset-request
request_password_reset(email, smtp) ==
    /\ steps < MaxSteps
    /\ LET arg == [email |-> email]
           user == get_user_by_email(email, users)
           answer == request_password_reset_response(user, smtp) IN
       /\ Respond("reset-request", NoCred, arg, answer.status, answer.detail, NoPair)
       /\ IF ~user.exists
          THEN UNCHANGED links
          ELSE links' = links \cup
                  {[purpose |-> "password-reset", mail |-> smtp,
                    token |-> create_url_safe_token([email |-> email],
                                                    "password-reset", now)]}
    /\ UNCHANGED <<now, tz, coaching, users, uuid_seq, issued, token_blacklist, codec, cleared,
                 tasks>>

\* GET /password-reset-confirm/{token}
get_password_reset_form(token) ==
    /\ steps < MaxSteps
    /\ LET token_data == decode_url_safe_token(token, "password-reset", now) IN
       IF token_data = None
       THEN Respond("reset-form", token, NoArg, HTTP_400, "Invalid or expired token",
                    NoPair)
       ELSE IF ~get_user_by_email(token_data.email, users).exists
       THEN Respond("reset-form", token, NoArg, HTTP_404, "User not found", NoPair)
       ELSE Respond("reset-form", token, NoArg, HTTP_200, "Token is valid", NoPair)
    /\ UNCHANGED <<now, tz, coaching, users, uuid_seq, issued, links, token_blacklist, codec, cleared,
                 tasks>>

\* Mutant: the handler without the comparison of the two passwords.
confirm_password_reset_NoMatchCheck(token, new_password, confirm_new_password) ==
    /\ steps < MaxSteps
    /\ LET arg == [new_password |-> new_password,
                   confirm_new_password |-> confirm_new_password]
           token_data == decode_url_safe_token(token, "password-reset", now) IN
       IF ~validate_password_strength(new_password)
       THEN /\ Respond("reset-confirm", token, arg, HTTP_400,
                       "Password must be stronger", NoPair)
            /\ UNCHANGED users
       ELSE IF token_data = None
       THEN /\ Respond("reset-confirm", token, arg, HTTP_400,
                       "Invalid or expired token", NoPair)
            /\ UNCHANGED users
       ELSE IF ~get_user_by_email(token_data.email, users).exists
       THEN /\ Respond("reset-confirm", token, arg, HTTP_404, "User not found",
                       NoPair)
            /\ UNCHANGED users
       ELSE /\ users' = [users EXCEPT ![token_data.email].password_hash =
                                          generate_passwd_hash(new_password)]
            /\ Respond("reset-confirm", token, arg, HTTP_200,
                       "Password has been reset successfully", NoPair)
    /\ UNCHANGED <<now, tz, coaching, uuid_seq, issued, links, token_blacklist, codec, cleared,
                 tasks>>

\* POST /password-reset-confirm/{token}
confirm_password_reset(token, new_password, confirm_new_password) ==
    /\ steps < MaxSteps
    /\ LET arg == [new_password |-> new_password,
                   confirm_new_password |-> confirm_new_password]
           token_data == decode_url_safe_token(token, "password-reset", now) IN
       IF new_password # confirm_new_password
       THEN /\ Respond("reset-confirm", token, arg, HTTP_400,
                       "Passwords do not match", NoPair)
            /\ UNCHANGED users
       ELSE IF ~validate_password_strength(new_password)
       THEN /\ Respond("reset-confirm", token, arg, HTTP_400,
                       "Password must be stronger", NoPair)
            /\ UNCHANGED users
       ELSE IF token_data = None
       THEN /\ Respond("reset-confirm", token, arg, HTTP_400,
                       "Invalid or expired token", NoPair)
            /\ UNCHANGED users
       ELSE IF ~get_user_by_email(token_data.email, users).exists
       THEN /\ Respond("reset-confirm", token, arg, HTTP_404, "User not found",
                       NoPair)
            /\ UNCHANGED users
       ELSE /\ users' = [users EXCEPT ![token_data.email].password_hash =
                                          generate_passwd_hash(new_password)]
            /\ Respond("reset-confirm", token, arg, HTTP_200,
                       "Password has been reset successfully", NoPair)
    /\ UNCHANGED <<now, tz, coaching, uuid_seq, issued, links, token_blacklist, codec, cleared,
                 tasks>>

----------------------------------------------------------------------------
(* The account specification: signup, verification and password reset, on a  *)
(* database that holds one verified account.                                  *)

AccountStore ==
    [e \in Emails |-> IF e = "b@x.com" THEN SeededUser(2, "user", TRUE) ELSE NoUser]

SignupPasswords == {StrongPassword, WeakPassword, PlainPassword}
ResetPasswords == {OtherPassword, WeakPassword}

\* The instants the account clock visits, in ticks: the ends of the announced
\* validity of a link made at the start, the second after each, and a day on.
AccountInstants ==
    { s * TicksPerSecond :
        s \in {ResetMaxAge, ResetMaxAge + 1, VerificationMaxAge,
               VerificationMaxAge + 1, REFRESH_TOKEN_EXPIRY * SecondsPerDay} }

InitAccount ==
    /\ now = 0
    /\ tz = 0
    /\ coaching = NoCoaching
    /\ users = AccountStore
    /\ uuid_seq = 2
    /\ issued = {}
    /\ links = {}
    /\ token_blacklist = {}
    /\ codec = NoCodec
    /\ cleared = {}
    /\ tasks = NoTasks
    /\ steps = 0
    /\ resp = NoResp

NextAccount ==
    \/ \E e \in Emails, p \in SignupPasswords, m \in SmtpOutcomes :
          create_user_account(e, p, m)
    \/ \E k \in LinkCreds : verify_email(k)
    \/ \E e \in Emails, m \in SmtpOutcomes : request_password_reset(e, m)
    \/ \E k \in LinkCreds : get_password_reset_form(k)
    \/ \E k \in LinkCreds, p \in ResetPasswords, c \in ResetPasswords :
          confirm_password_reset(k, p, c)
    \/ \E t \in AccountInstants : Tick(t)
    \/ \E e \in Emails : ExternalDeleteUser(e)

SpecAccount == InitAccount /\ [][NextAccount]_vars

----------------------------------------------------------------------------
(* The codec specification: create_access_token and decode_token used        *)
(* directly, for any claims, lifetime and token type, at any instant.         *)

CodecClaims ==
    { [email |-> "a@x.com", user_uid |-> 1, role |-> "admin"],
      [email |-> "b@x.com", user_uid |-> 2] }
CodecLifetimes == {NoExpiry, 1, RefreshLifetime}

\* The instants the codec clock visits, in ticks: the first half seconds, and
\* the half seconds around each hour mark and around the end of a refresh
\* token's lifetime.
CodecMarks ==
    {0} \cup { h * ACCESS_TOKEN_EXPIRY * TicksPerSecond : h \in 1..MaxHour }
        \cup { RefreshLifetime * TicksPerSecond }
CodecInstants ==
    { m + k : m \in CodecMarks, k \in 0..(TicksPerSecond + 1) } \cup
    { m - 1 : m \in CodecMarks \ {0} }

CodecIssue(user_data, expiry, refresh) ==
    /\ Step
    /\ uuid_seq' = uuid_seq + 1
    /\ codec' = [used |-> TRUE,
                 user_data |-> user_data,
                 lifetime |-> Lifetime(expiry),
                 issued_at |-> now,
                 token |-> create_access_token(user_data, expiry, refresh, now, tz,
                                               uuid_seq + 1),
                 presented |-> None,
                 decoded_at |-> 0,
                 decoded |-> None]
    /\ UNCHANGED <<now, tz, coaching, users, issued, links, token_blacklist, cleared,
                 tasks, resp>>

\* What can be handed to decode_token once a token exists.
CodecInputs ==
    IF codec.used
    THEN {codec.token, Tampered(codec.token), Malformed, Forged}
    ELSE {Malformed, Forged}

CodecDecode(token) ==
    /\ Step
    /\ codec.used
    /\ codec' = [codec EXCEPT !.presented = token,
                              !.decoded_at = now,
                              !.decoded = decode_token(token, now)]
    /\ UNCHANGED <<now, tz, coaching, users, uuid_seq, issued, links, token_blacklist, cleared,
                 tasks, resp>>

InitCodec ==
    /\ now \in {0, 1}
    /\ tz \in TzOffsets
    /\ coaching = NoCoaching
    /\ users = SeededStore
    /\ uuid_seq = 2
    /\ issued = {}
    /\ links = {}
    /\ token_blacklist = {}
    /\ codec = NoCodec
    /\ cleared = {}
    /\ tasks = NoTasks
    /\ steps = 0
    /\ resp = NoResp

NextCodec ==
    \/ \E c \in CodecClaims, l \in CodecLifetimes, r \in BOOLEAN : CodecIssue(c, l, r)
    \/ \E k \in CodecInputs : CodecDecode(k)
    \/ \E t \in CodecInstants : Tick(t)

SpecCodec == InitCodec /\ [][NextCodec]_vars

----------------------------------------------------------------------------
(* Concurrent requests. The handlers are coroutines of one event loop: a      *)
(* request runs without interruption from one await to the next. The bearer   *)
(* guard (decode, type check, lookup in token_blacklist) runs in one piece;   *)
(* the dependencies that follow it (get_session, the user lookup) and the     *)
(* handler's body run in a later piece, so other requests interleave between  *)
(* a request's guard and its handler.                                         *)

\* Mutant: the set is copied when the guard reads it, and the copy with the new
\* id is stored back.
token_blacklist_add_StaleCopy(seen, blacklist, jti) == seen \cup {jti}

\* token_blacklist.add(jti): the id is added in place to the one set of the
\* module, whatever the request saw of it before.
token_blacklist_add(seen, blacklist, jti) == add_jti_to_blocklist(blacklist, jti)

TaskKinds == {"logout", "me"}

\* The access tokens clients hold.
HeldAccess == { k \in Held : ~k.payload.refresh }

\* The token ids whose logout request has been answered.
LoggedOut ==
    { tasks[i].cred.payload.jti :
        i \in { j \in 1..MaxTasks : /\ tasks[j].pc = "done"
                                    /\ tasks[j].kind = "logout"
                                    /\ tasks[j].status = HTTP_200 } }

Done(task, status, detail) ==
    [task EXCEPT !.pc = "done", !.status = status, !.detail = detail]

\* A request arrives. Tasks are taken in order.
TaskStart(i, kind, cred) ==
    /\ tasks[i].pc = "idle"
    /\ \A j \in 1..(i - 1) : tasks[j].pc # "idle"
    /\ tasks' = [tasks EXCEPT ![i] =
                    [pc |-> "guard", kind |-> kind, cred |-> cred,
                     after |-> LoggedOut, seen |-> {}, status |-> 0, detail |-> ""]]
    /\ UNCHANGED <<now, tz, coaching, users, uuid_seq, issued, links, token_blacklist, codec,
                   cleared, steps, resp>>

\* AccessTokenBearer.__call__ for the request of task i.
TaskGuard(i) ==
    /\ tasks[i].pc = "guard"
    /\ LET token_details ==
               AccessTokenBearer(tasks[i].cred, now, token_blacklist, HTTP_403) IN
       tasks' = [tasks EXCEPT ![i] =
                    IF ~token_details.ok
                    THEN Done(@, token_details.status, token_details.detail)
                    ELSE [@ EXCEPT !.pc = "handler", !.seen = token_blacklist]]
    /\ UNCHANGED <<now, tz, coaching, users, uuid_seq, issued, links, token_blacklist, codec,
                   cleared, steps, resp>>

\* The rest of the request of task i: logout's body, or the user lookup, the
\* role check and the body of get_current_user_profile.
TaskHandler(i) ==
    /\ tasks[i].pc = "handler"
    /\ LET task == tasks[i]
           token_data == task.cred.payload
           user == get_user_by_email(token_data.user.email, users) IN
       IF task.kind = "logout"
       THEN IF token_data.jti = 0
            THEN /\ tasks' = [tasks EXCEPT ![i] = Done(@, HTTP_500, "Failed to logout")]
                 /\ UNCHANGED token_blacklist
            ELSE /\ token_blacklist' =
                        token_blacklist_add(task.seen, token_blacklist, token_data.jti)
                 /\ tasks' = [tasks EXCEPT ![i] =
                                 Done(@, HTTP_200, "Logged out successfully")]
       ELSE /\ tasks' = [tasks EXCEPT ![i] =
                   IF ~user.exists THEN Done(@, HTTP_404, "User not found")
                   ELSE IF user.role \notin role_checker_roles
                   THEN Done(@, HTTP_403, "Operation not permitted")
                   ELSE Done(@, HTTP_200, token_data.user.email)]
            /\ UNCHANGED token_blacklist
    /\ UNCHANGED <<now, tz, coaching, users, uuid_seq, issued, links, codec, cleared, steps,
                   resp>>

InitConcurrent ==
    /\ now = 0
    /\ tz = 0
    /\ coaching = NoCoaching
    /\ users = SeededStore
    /\ uuid_seq = 2
    /\ issued = {}
    /\ links = {}
    /\ token_blacklist = {}
    /\ codec = NoCodec
    /\ cleared = {}
    /\ tasks = NoTasks
    /\ steps = 0
    /\ resp = NoResp

\* A login touches neither the registry nor a request in flight, so it
\* commutes with the steps of the tasks: the logins are taken first, and there
\* are at most as many of them as there are tasks to present their tokens.
NextConcurrent ==
    \/ /\ tasks = NoTasks
       /\ Cardinality(HeldAccess) < MaxTasks
       /\ \E e \in Emails : login_user(e, StrongPassword)
    \/ \E i \in 1..MaxTasks, kind \in TaskKinds, k \in HeldAccess :
          TaskStart(i, kind, k)
    \/ \E i \in 1..MaxTasks : TaskGuard(i)
    \/ \E i \in 1..MaxTasks : TaskHandler(i)

SpecConcurrent == InitConcurrent /\ [][NextConcurrent]_vars

----------------------------------------------------------------------------
(* The process lifetime specification: every operation of one process that    *)
(* runs while the registry exists: the session requests, the registry's own   *)
(* operation, the password reset, and the passing of time.                    *)

NextLifetime ==
    \/ \E e \in Emails, p \in Passwords : login_user(e, p)
    \/ \E q \in BearerRequests : refresh_token(q[1], q[2])
    \/ \E q \in BearerRequests : logout(q[1], q[2])
    \/ \E q \in BearerRequests : get_current_user_profile(q[1], q[2])
    \/ \E k \in Held : revoke(k.payload.jti)
    \/ \E t \in Instants : Tick(t)
    \/ \E e \in Emails : request_password_reset(e, "sent")
    \/ \E k \in LinkCreds : confirm_password_reset(k, OtherPassword, OtherPassword)

SpecLifetime == Init /\ [][NextLifetime]_vars

----------------------------------------------------------------------------
(* Process restarts. token_blacklist is a module-level set(): it is made      *)
(* empty when the module is loaded and is written nowhere else, so a new      *)
(* process starts without the ids of the old one. The database, the clock and *)
(* the tokens clients hold outlive the process.                               *)

\* Mutant: the registry is kept across the restart.
Restart_Persisted ==
    /\ Step
    /\ cleared' = cleared \cup token_blacklist
    /\ UNCHANGED <<now, tz, coaching, users, uuid_seq, issued, links, token_blacklist, codec,
                   tasks, resp>>

Restart ==
    /\ Step
    /\ cleared' = cleared \cup token_blacklist
    /\ token_blacklist' = {}
    /\ UNCHANGED <<now, tz, coaching, users, uuid_seq, issued, links, codec, tasks, resp>>

NextRestart ==
    \/ Next
    \/ Restart

SpecRestart == Init /\ [][NextRestart]_vars

----------------------------------------------------------------------------
(* The decoding specification: any string a client can make is handed to      *)
(* decode_token, directly and as the bearer credential of a request to the    *)
(* access guard (GET /me) and to the refresh guard (POST /refresh).           *)

NextDecode ==
    \/ \E c \in CodecClaims, l \in CodecLifetimes, r \in BOOLEAN : CodecIssue(c, l, r)
    \/ \E k \in CodecInputs : CodecDecode(k)
    \/ \E k \in CodecInputs : get_current_user_profile(k, HTTP_403)
    \/ \E k \in CodecInputs : refresh_token(k, HTTP_403)
    \/ \E t \in Instants : Tick(t)

SpecDecode == InitCodec /\ [][NextDecode]_vars

----------------------------------------------------------------------------
(* The onboarding specification: an account is made, verified and used to     *)
(* log in and to renew its tokens, on a database that holds one verified      *)
(* account; rows can leave the database, and an email can be signed up again. *)

LoginPasswords == {StrongPassword, OtherPassword}

NextOnboarding ==
    \/ \E e \in Emails, p \in Passwords : create_user_account(e, p, "sent")
    \/ \E k \in LinkCreds : verify_email(k)
    \/ \E e \in Emails, p \in LoginPasswords : login_user(e, p)
    \/ \E k \in Creds : refresh_token(k, HTTP_403)
    \/ \E e \in Emails : ExternalDeleteUser(e)

SpecOnboarding == InitAccount /\ [][NextOnboarding]_vars

----------------------------------------------------------------------------
(* Concurrent signups. create_user_account awaits twice: the SELECT of        *)
(* user_exists and the commit of create_user. Each request has its own        *)
(* database session, so another request's steps fall between the two. The     *)
(* email column is unique: a commit that would store a second row for an      *)
(* email raises IntegrityError, which create_user logs and raises again and   *)
(* no handler catches, so the framework answers 500.                          *)

\* A signup request arrives: the password is validated before anything is
\* awaited. Tasks are taken in order.
SignupStart(i, email, password) ==
    /\ tasks[i].pc = "idle"
    /\ \A j \in 1..(i - 1) : tasks[j].pc # "idle"
    /\ LET task == [pc |-> "check", kind |-> "signup",
                    arg |-> [email |-> email, password |-> password],
                    created |-> FALSE, status |-> 0, detail |-> ""] IN
       tasks' = [tasks EXCEPT ![i] =
                    IF ~validate_password_strength(password)
                    THEN Done(task, HTTP_400, "Password must be stronger")
                    ELSE task]
    /\ UNCHANGED <<now, tz, coaching, users, uuid_seq, issued, links, token_blacklist, codec,
                   cleared, steps, resp>>

\* await user_service.user_exists(email, session)
SignupCheck(i) ==
    /\ tasks[i].pc = "check"
    /\ tasks' = [tasks EXCEPT ![i] =
                    IF get_user_by_email(@.arg.email, users).exists
                    THEN Done(@, HTTP_409, "User with this email already exists")
                    ELSE [@ EXCEPT !.pc = "create"]]
    /\ UNCHANGED <<now, tz, coaching, users, uuid_seq, issued, links, token_blacklist, codec,
                   cleared, steps, resp>>

\* await user_service.create_user(user_data, session), and the rest of the
\* handler when the commit succeeds.
SignupCommit(i) ==
    /\ tasks[i].pc = "create"
    /\ LET email == tasks[i].arg.email IN
       IF get_user_by_email(email, users).exists
       THEN /\ tasks' = [tasks EXCEPT ![i] = Done(@, HTTP_500, "Internal Server Error")]
            /\ UNCHANGED <<users, uuid_seq, links>>
       ELSE /\ users' = create_user(users, email, tasks[i].arg.password, uuid_seq + 1)
            /\ uuid_seq' = uuid_seq + 1
            /\ links' = links \cup
                  {[purpose |-> "email-verification", mail |-> "sent",
                    token |-> create_url_safe_token([email |-> email],
                                                    "email-verification", now)]}
            /\ tasks' = [tasks EXCEPT ![i] =
                            [Done(@, HTTP_201, "Account created!")
                                EXCEPT !.created = TRUE]]
    /\ UNCHANGED <<now, tz, coaching, issued, token_blacklist, codec, cleared, steps, resp>>

RacePasswords == {StrongPassword, OtherPassword, WeakPassword}

NextSignup ==
    \/ \E i \in 1..MaxTasks, e \in Emails, p \in RacePasswords :
          SignupStart(i, e, p)
    \/ \E i \in 1..MaxTasks : SignupCheck(i)
    \/ \E i \in 1..MaxTasks : SignupCommit(i)

SpecSignup == InitAccount /\ [][NextSignup]_vars

----------------------------------------------------------------------------
(* Coaching: coaching/routes.py, coaching/service.py                          *)
(* A row of a coaching table is its table (kind), its uid, the client it      *)
(* belongs to (0 in the tables without a client column), the rows it points   *)
(* to (a session or plan, and an exercise; 0 for none) and whether an update  *)
(* has rewritten it.                                                          *)

Row(kind, uid, client_uid, ref) ==
    [kind |-> kind, uid |-> uid, client_uid |-> client_uid, ref |-> ref,
     updated |-> FALSE]

NoRef == <<0, 0>>

\* A uid that no row has.
UnknownUid == 999

\* select(Table).where(Table.client_uid == client_uid)
rows_by_client(rows, kind, client_uid) ==
    { r \in rows : r.kind = kind /\ r.client_uid = client_uid }

\* select(Table).where(Table.uid == uid): the rows found (one at most).
rows_by_uid(rows, kind, uid) == { r \in rows : r.kind = kind /\ r.uid = uid }

\* Mutant: any authenticated user passes for any client.
owner_or_admin_Open(current_user, client_uid) == TRUE

\* The test the client endpoints make before they read or write:
\* not (current_user.role != "admin" and str(current_user.uid) != str(client_uid))
owner_or_admin(current_user, client_uid) ==
    ~(current_user.role # "admin" /\ current_user.uid # client_uid)

\* The response of a coaching request, and the rows it carries.
CoachingRespond(ep, cred, arg, status, detail, rows, returned) ==
    /\ Respond(ep, cred, arg, status, detail, NoPair)
    /\ coaching' = [rows |-> rows, returned |-> returned]

\* A GET of one client's rows of one table: get_current_user, the owner test,
\* the select.
client_read(ep, kind, cred, missing, client_uid, denied) ==
    /\ steps < MaxSteps
    /\ LET current_user ==
               get_current_user(cred, now, token_blacklist, users, missing)
           arg == [client_uid |-> client_uid] IN
       IF ~current_user.ok
       THEN CoachingRespond(ep, cred, arg, current_user.status, current_user.detail,
                            coaching.rows, {})
       ELSE IF ~owner_or_admin(current_user.data.user, client_uid)
       THEN CoachingRespond(ep, cred, arg, HTTP_403, denied, coaching.rows, {})
       ELSE CoachingRespond(ep, cred, arg, HTTP_200, "", coaching.rows,
                            rows_by_client(coaching.rows, kind, client_uid))
    /\ UNCHANGED <<now, tz, users, uuid_seq, issued, links, token_blacklist, codec,
                   cleared, tasks>>

\* A POST behind admin_role_checker that stores one new row.
admin_create(ep, cred, missing, arg, kind, client_uid, ref) ==
    /\ steps < MaxSteps
    /\ LET checked == RoleChecker(admin_roles, cred, now, token_blacklist, users,
                                  missing) IN
       IF ~checked.ok
       THEN /\ CoachingRespond(ep, cred, arg, checked.status, checked.detail,
                               coaching.rows, {})
            /\ UNCHANGED uuid_seq
       ELSE LET new == Row(kind, uuid_seq + 1, client_uid, ref) IN
            /\ CoachingRespond(ep, cred, arg, HTTP_200, "",
                               coaching.rows \cup {new}, {new})
            /\ uuid_seq' = uuid_seq + 1
    /\ UNCHANGED <<now, tz, users, issued, links, token_blacklist, codec, cleared,
                   tasks>>

\* A PUT behind admin_role_checker that rewrites the row with the given uid,
\* or answers 404 when there is none.
admin_update(ep, cred, missing, kind, uid, notfound) ==
    /\ steps < MaxSteps
    /\ LET checked == RoleChecker(admin_roles, cred, now, token_blacklist, users,
                                  missing)
           arg == [uid |-> uid]
           found == rows_by_uid(coaching.rows, kind, uid)
           rewritten == { [r EXCEPT !.updated = TRUE] : r \in found } IN
       IF ~checked.ok
       THEN CoachingRespond(ep, cred, arg, checked.status, checked.detail,
                            coaching.rows, {})
       ELSE IF found = {}
       THEN CoachingRespond(ep, cred, arg, HTTP_404, notfound, coaching.rows, {})
       ELSE CoachingRespond(ep, cred, arg, HTTP_200, "",
                            (coaching.rows \ found) \cup rewritten, rewritten)
    /\ UNCHANGED <<now, tz, users, uuid_seq, issued, links, token_blacklist, codec,
                   cleared, tasks>>

\* POST /sessions
create_coaching_session(cred, missing, client_uid) ==
    admin_create("create_coaching_session", cred, missing,
                 [client_uid |-> client_uid], "session", client_uid, NoRef)

\* GET /sessions/client/{client_uid}
get_client_sessions(cred, missing, client_uid) ==
    client_read("get_client_sessions", "session", cred, missing, client_uid,
                "You can only view your own sessions")

\* PUT /sessions/{session_uid}
update_coaching_session(cred, missing, session_uid) ==
    admin_update("update_coaching_session", cred, missing, "session", session_uid,
                 "Session not found")

\* POST /progress: get_current_user, the owner test, the insert.
create_progress_entry(cred, missing, client_uid, session_uid) ==
    /\ steps < MaxSteps
    /\ LET current_user ==
               get_current_user(cred, now, token_blacklist, users, missing)
           arg == [client_uid |-> client_uid]
           new == Row("progress", uuid_seq + 1, client_uid, <<session_uid, 0>>) IN
       IF ~current_user.ok
       THEN /\ CoachingRespond("create_progress_entry", cred, arg,
                               current_user.status, current_user.detail,
                               coaching.rows, {})
            /\ UNCHANGED uuid_seq
       ELSE IF ~owner_or_admin(current_user.data.user, client_uid)
       THEN /\ CoachingRespond("create_progress_entry", cred, arg, HTTP_403,
                               "You can only create progress entries for yourself",
                               coaching.rows, {})
            /\ UNCHANGED uuid_seq
       ELSE /\ CoachingRespond("create_progress_entry", cred, arg, HTTP_200, "",
                               coaching.rows \cup {new}, {new})
            /\ uuid_seq' = uuid_seq + 1
    /\ UNCHANGED <<now, tz, users, issued, links, token_blacklist, codec, cleared,
                   tasks>>

\* GET /progress/client/{client_uid}
get_client_progress(cred, missing, client_uid) ==
    client_read("get_client_progress", "progress", cred, missing, client_uid,
                "You can only view your own progress")

\* POST /exercises
create_exercise(cred, missing) ==
    admin_create("create_exercise", cred, missing, NoArg, "exercise", 0, NoRef)

\* GET /exercises: every authenticated user gets the whole table.
get_all_exercises(cred, missing) ==
    /\ steps < MaxSteps
    /\ LET current_user ==
               get_current_user(cred, now, token_blacklist, users, missing) IN
       IF ~current_user.ok
       THEN CoachingRespond("get_all_exercises", cred, NoArg, current_user.status,
                            current_user.detail, coaching.rows, {})
       ELSE CoachingRespond("get_all_exercises", cred, NoArg, HTTP_200, "",
                            coaching.rows,
                            { r \in coaching.rows : r.kind = "exercise" })
    /\ UNCHANGED <<now, tz, users, uuid_seq, issued, links, token_blacklist, codec,
                   cleared, tasks>>

\* PUT /exercises/{exercise_uid}
update_exercise(cred, missing, exercise_uid) ==
    admin_update("update_exercise", cred, missing, "exercise", exercise_uid,
                 "Exercise not found")

\* POST /workout-plans
create_workout_plan(cred, missing, client_uid) ==
    admin_create("create_workout_plan", cred, missing,
                 [client_uid |-> client_uid], "plan", client_uid, NoRef)

\* GET /workout-plans/client/{client_uid}
get_client_workout_plans(cred, missing, client_uid) ==
    client_read("get_client_workout_plans", "plan", cred, missing, client_uid,
                "You can only view your own workout plans")

\* POST /workout-plans/{plan_uid}/exercises. The handler does not look the plan
\* or the exercise up: a uid that no row has is stored when the database does
\* not enforce foreign keys (SQLite as configured) and makes the commit raise,
\* hence a 500, when it does.
add_exercise_to_plan(cred, missing, plan_uid, exercise_uid, enforced) ==
    /\ steps < MaxSteps
    /\ LET checked == RoleChecker(admin_roles, cred, now, token_blacklist, users,
                                  missing)
           arg == [uid |-> plan_uid]
           dangling == \/ rows_by_uid(coaching.rows, "plan", plan_uid) = {}
                       \/ rows_by_uid(coaching.rows, "exercise", exercise_uid) = {}
           new == Row("plan_exercise", uuid_seq + 1, 0, <<plan_uid, exercise_uid>>) IN
       IF ~checked.ok
       THEN /\ CoachingRespond("add_exercise_to_plan", cred, arg, checked.status,
                               checked.detail, coaching.rows, {})
            /\ UNCHANGED uuid_seq
       ELSE IF dangling /\ enforced
       THEN /\ CoachingRespond("add_exercise_to_plan", cred, arg, HTTP_500,
                               "Internal Server Error", coaching.rows, {})
            /\ UNCHANGED uuid_seq
       ELSE /\ CoachingRespond("add_exercise_to_plan", cred, arg, HTTP_200,
                               "Exercise added to plan successfully",
                               coaching.rows \cup {new}, {})
            /\ uuid_seq' = uuid_seq + 1
    /\ UNCHANGED <<now, tz, users, issued, links, token_blacklist, codec, cleared,
                   tasks>>

\* POST /assessments
create_assessment(cred, missing, client_uid) ==
    admin_create("create_assessment", cred, missing,
                 [client_uid |-> client_uid], "assessment", client_uid, NoRef)

\* GET /assessments/client/{client_uid}
get_client_assessments(cred, missing, client_uid) ==
    client_read("get_client_assessments", "assessment", cred, missing, client_uid,
                "You can only view your own assessments")

----------------------------------------------------------------------------
(* The coaching specification: the database holds an admin (uid 1) and a user *)
(* (uid 2), rows of every coaching table for both, and both have logged in.   *)

ClientUids == {1, 2}

SeededRows ==
    UNION { { Row("session", 100 * c + 1, c, NoRef),
              Row("progress", 100 * c + 2, c, <<100 * c + 1, 0>>),
              Row("plan", 100 * c + 3, c, NoRef),
              Row("assessment", 100 * c + 4, c, NoRef) } : c \in ClientUids }
    \cup { Row("exercise", 301, 0, NoRef),
           Row("plan_exercise", 302, 0, <<103, 301>>) }

\* The pair the login of a seeded user returned at the start, with the token
\* ids seq + 1 and seq + 2.
SeededPair(email, seq) ==
    [access_token |->
        create_access_token(
            [email |-> email, user_uid |-> SeededStore[email].uid,
             role |-> SeededStore[email].role],
            NoExpiry, FALSE, 0, 0, seq + 1),
     refresh_token |->
        create_access_token(
            [email |-> email, user_uid |-> SeededStore[email].uid],
            RefreshLifetime, TRUE, 0, 0, seq + 2)]

SeededIssued ==
    UNION { { [at |-> 0, session |-> SeededPair(e[1], e[2]).access_token.payload.jti,
               token |-> k] :
                k \in {SeededPair(e[1], e[2]).access_token,
                       SeededPair(e[1], e[2]).refresh_token} } :
            e \in {<<"a@x.com", 2>>, <<"b@x.com", 4>>} }

\* The state after the logins of a@x.com and b@x.com, in this order.
InitCoaching ==
    /\ now = 0
    /\ tz = 0
    /\ coaching = [rows |-> SeededRows, returned |-> {}]
    /\ users = SeededStore
    /\ uuid_seq = 6
    /\ issued = SeededIssued
    /\ links = {}
    /\ token_blacklist = {}
    /\ codec = NoCodec
    /\ cleared = {}
    /\ tasks = NoTasks
    /\ steps = 2
    /\ resp = [n |-> 2, ep |-> "login", cred |-> NoCred,
               arg |-> [email |-> "b@x.com", password |-> StrongPassword],
               status |-> HTTP_200, detail |-> "Login successful",
               pair |-> SeededPair("b@x.com", 4)]

\* What a client presents to the coaching endpoints.
CoachingCreds == {NoCred, Forged} \cup Held
CoachingRequests ==
    { <<c, m>> \in CoachingCreds \X BearerMissingStatuses :
        c # NoCred => m = HTTP_403 }

\* The uids a request can name for a row of a table.
UidsOf(kind) == { r.uid : r \in { q \in coaching.rows : q.kind = kind } }
                   \cup {UnknownUid}

NextCoaching ==
    \/ \E q \in CoachingRequests, c \in ClientUids :
          create_coaching_session(q[1], q[2], c)
    \/ \E q \in CoachingRequests, c \in ClientUids :
          get_client_sessions(q[1], q[2], c)
    \/ \E q \in CoachingRequests : \E u \in UidsOf("session") :
          update_coaching_session(q[1], q[2], u)
    \/ \E q \in CoachingRequests, c \in ClientUids : \E u \in {0, 100 * c + 1} :
          create_progress_entry(q[1], q[2], c, u)
    \/ \E q \in CoachingRequests, c \in ClientUids :
          get_client_progress(q[1], q[2], c)
    \/ \E q \in CoachingRequests : create_exercise(q[1], q[2])
    \/ \E q \in CoachingRequests : get_all_exercises(q[1], q[2])
    \/ \E q \in CoachingRequests : \E u \in UidsOf("exercise") :
          update_exercise(q[1], q[2], u)
    \/ \E q \in CoachingRequests, c \in ClientUids :
          create_workout_plan(q[1], q[2], c)
    \/ \E q \in CoachingRequests, c \in ClientUids :
          get_client_workout_plans(q[1], q[2], c)
    \/ \E q \in CoachingRequests, enforced \in BOOLEAN :
          \E u \in {203, UnknownUid} :
             add_exercise_to_plan(q[1], q[2], u, 301, enforced)
    \/ \E q \in CoachingRequests, c \in ClientUids :
          create_assessment(q[1], q[2], c)
    \/ \E q \in CoachingRequests, c \in ClientUids :
          get_client_assessments(q[1], q[2], c)
    \/ \E q \in CoachingRequests, e \in Emails, r \in RequestedRoles :
          set_user_role(q[1], q[2], e, r)

SpecCoaching == InitCoaching /\ [][NextCoaching]_vars

----------------------------------------------------------------------------
(* The logout specification: logins and logouts, where a client may also      *)
(* present an access token that carries the server's signature and no jti     *)
(* (create_access_token always sets one; such a token comes from another      *)
(* issuer that has JWT_SECRET). logout tests for it: "if not jti".            *)

\* payload.get("jti") is None for it: the token id 0.
WithoutJti(email) ==
    create_access_token(
        [email |-> email, user_uid |-> SeededStore[email].uid,
         role |-> SeededStore[email].role],
        NoExpiry, FALSE, 0, 0, 0)

LogoutCreds == Creds \cup { WithoutJti(e) : e \in Emails }

NextLogout ==
    \/ \E e \in Emails, p \in LoginPasswords : login_user(e, p)
    \/ \E k \in LogoutCreds : logout(k, HTTP_403)
    \/ \E k \in LogoutCreds : get_current_user_profile(k, HTTP_403)

SpecLogout == Init /\ [][NextLogout]_vars

----------------------------------------------------------------------------
(* The specification without an admin: every request of the API, on a         *)
(* database whose one account has the role user.                              *)

\* The credentials presented: none, a forged admin token, and the access
\* tokens clients hold.
ApiRequests ==
    { <<c, m>> \in ({NoCred, Forged} \cup HeldAccess) \X BearerMissingStatuses :
        c # NoCred => m = HTTP_403 }

LinksMade == { l.token : l \in links }

NextNoAdmin ==
    \/ \E e \in Emails : create_user_account(e, StrongPassword, "sent")
    \/ \E k \in LinksMade : verify_email(k)
    \/ \E e \in Emails : login_user(e, StrongPassword)
    \/ \E k \in Held : refresh_token(k, HTTP_403)
    \/ \E k \in Held : logout(k, HTTP_403)
    \/ \E q \in ApiRequests : get_current_user_profile(q[1], q[2])
    \/ \E e \in Emails : request_password_reset(e, "sent")
    \/ \E k \in LinksMade : get_password_reset_form(k)
    \/ \E k \in LinksMade : confirm_password_reset(k, OtherPassword, OtherPassword)
    \/ \E q \in ApiRequests, e \in Emails, r \in {"admin", "user"} :
          set_user_role(q[1], q[2], e, r)
    \/ \E q \in ApiRequests, c \in ClientUids :
          create_coaching_session(q[1], q[2], c)
    \/ \E q \in ApiRequests, c \in ClientUids : get_client_sessions(q[1], q[2], c)
    \/ \E q \in ApiRequests : \E u \in UidsOf("session") :
          update_coaching_session(q[1], q[2], u)
    \/ \E q \in ApiRequests, c \in ClientUids :
          create_progress_entry(q[1], q[2], c, 0)
    \/ \E q \in ApiRequests, c \in ClientUids : get_client_progress(q[1], q[2], c)
    \/ \E q \in ApiRequests : create_exercise(q[1], q[2])
    \/ \E q \in ApiRequests : get_all_exercises(q[1], q[2])
    \/ \E q \in ApiRequests : \E u \in UidsOf("exercise") :
          update_exercise(q[1], q[2], u)
    \/ \E q \in ApiRequests, c \in ClientUids : create_workout_plan(q[1], q[2], c)
    \/ \E q \in ApiRequests, c \in ClientUids :
          get_client_workout_plans(q[1], q[2], c)
    \/ \E q \in ApiRequests :
          add_exercise_to_plan(q[1], q[2], UnknownUid, UnknownUid, FALSE)
    \/ \E q \in ApiRequests, c \in ClientUids : create_assessment(q[1], q[2], c)
    \/ \E q \in ApiRequests, c \in ClientUids :
          get_client_assessments(q[1], q[2], c)

SpecNoAdmin == InitAccount /\ [][NextNoAdmin]_vars

----------------------------------------------------------------------------
(* Properties *)

AccessEndpoints == {"logout", "me", "set-role"}

\* The step answers a request to one of these endpoints.
Answered(endpoints) == resp'.n # resp.n /\ resp'.ep \in endpoints

\* The token carries the server's signature over its payload.
ServerSigned(token) == token.sig = Sign(JWT_SECRET, token.payload)

\* The token's exp lies after instant t.
Unexpired(token, t) == token.payload.exp * TicksPerSecond > t

\* The step changes neither the users table nor the revocation set.
Untouched == users' = users /\ token_blacklist' = token_blacklist

\* C1: once a jti is in the revocation set, every request that presents a token
\* carrying it to the access guard is answered 401 and no handler runs; while
\* the token is still a valid access token the reason is "Token has been
\* revoked".
C1_RevokedAccessTokenRejected ==
    [][ (/\ Answered(AccessEndpoints)
         /\ resp'.cred # NoCred
         /\ resp'.cred.payload.jti \in token_blacklist)
        => /\ resp'.status = HTTP_401
           /\ Untouched
           /\ (/\ ServerSigned(resp'.cred)
               /\ ~resp'.cred.payload.refresh
               /\ Unexpired(resp'.cred, now))
              => resp'.detail = "Token has been revoked" ]_vars

C1_Witness ==
    /\ resp.ep \in AccessEndpoints
    /\ resp.cred # NoCred
    /\ resp.cred.payload.jti \in token_blacklist
    /\ resp.status = HTTP_401
    /\ resp.detail = "Token has been revoked"
    /\ now > 0

\* C2: a link token older than the validity of its purpose (24 hours for
\* verification, 1 hour for reset) is rejected by verify_email,
\* get_password_reset_form and confirm_password_reset.
MaxAgeAt(ep) == IF ep = "verify" THEN VerificationMaxAge ELSE ResetMaxAge

C2_LinkTokenExpires ==
    [][ \A l \in links :
          (/\ Answered({"verify", "reset-form", "reset-confirm"})
           /\ resp'.cred = l.token
           /\ Timestamp(now) - l.token.ts > MaxAgeAt(resp'.ep))
          => /\ resp'.status = HTTP_400
             /\ users' = users ]_vars

\* C3: a refresh token whose jti is in the revocation set is rejected by the
\* refresh guard and mints no pair.
C3_RevokedRefreshTokenRejected ==
    [][ (/\ Answered({"refresh"})
         /\ resp'.cred # NoCred
         /\ resp'.cred.payload.jti \in token_blacklist)
        => /\ resp'.status = HTTP_401
           /\ resp'.pair = NoPair ]_vars

\* C4: after a logout, neither token of the pair the logged-out access token
\* belongs to is accepted: the access guard and POST /refresh answer 401 and no
\* pair is minted.
C4_LogoutInvalidatesSession ==
    [][ \A i \in issued :
          (/\ Answered(AccessEndpoints \cup {"refresh"})
           /\ resp'.cred = i.token
           /\ i.session \in token_blacklist)
          => /\ resp'.status = HTTP_401
             /\ resp'.pair = NoPair ]_vars

\* C5: a token whose type flag says refresh never gets past the access guard,
\* and one whose flag says access never gets past the refresh guard: the answer
\* is 401 and nothing is changed or issued; for a validly signed, unexpired
\* token the reason names the token type that is wanted.
C5_TokenTypeEnforced ==
    [][ (resp'.n # resp.n /\ resp'.cred # NoCred)
        => /\ (resp'.ep \in AccessEndpoints /\ resp'.cred.payload.refresh)
              => /\ resp'.status = HTTP_401
                 /\ Untouched
                 /\ (ServerSigned(resp'.cred) /\ Unexpired(resp'.cred, now))
                    => resp'.detail = "Please provide an access token"
           /\ (resp'.ep = "refresh" /\ ~resp'.cred.payload.refresh)
              => /\ resp'.status = HTTP_401
                 /\ resp'.pair = NoPair
                 /\ issued' = issued
                 /\ (ServerSigned(resp'.cred) /\ Unexpired(resp'.cred, now))
                    => resp'.detail = "Please provide a refresh token" ]_vars

C5_Witness ==
    /\ resp.ep \in AccessEndpoints
    /\ resp.cred \in Held
    /\ resp.cred.payload.refresh
    /\ resp.status = HTTP_401
    /\ resp.detail = "Please provide an access token"

\* C6: a token issued with claims C and lifetime L decodes to C at every instant
\* before issue time + L, and to None at every instant from exp on.
C6_DecodeWithinLifetime ==
    (codec.used /\ codec.presented = codec.token)
    => /\ (codec.decoded_at < codec.issued_at + codec.lifetime * TicksPerSecond)
          => /\ codec.decoded # None
             /\ codec.decoded.user = codec.user_data
       /\ (codec.decoded_at >= codec.token.payload.exp * TicksPerSecond)
          => codec.decoded = None

\* C7: a link made for one purpose is rejected where the other purpose is
\* decoded, whatever its payload and timestamp: a verification link resets no
\* password and a reset link verifies no email.
C7_LinkTokensPurposeScoped ==
    [][ \A l \in links :
          (resp'.n # resp.n /\ resp'.cred = l.token)
          => /\ (/\ l.purpose = "email-verification"
                 /\ resp'.ep \in {"reset-form", "reset-confirm"})
                => (resp'.status = HTTP_400 /\ users' = users)
             /\ (l.purpose = "password-reset" /\ resp'.ep = "verify")
                => (resp'.status = HTTP_400 /\ users' = users) ]_vars

C7_Witness ==
    /\ resp.ep = "reset-confirm"
    /\ resp.status = HTTP_400
    /\ resp.detail = "Invalid or expired token"
    /\ \E l \in links, m \in links :
          /\ l.purpose = "email-verification"
          /\ l.token = resp.cred
          /\ m.purpose = "password-reset"
          /\ m.token.payload = l.token.payload
          /\ m.token.ts = l.token.ts

\* C8: on the admin-only endpoint, a valid, unrevoked access token of an
\* existing user whose role is "user" is answered 403, and the handler does not
\* run.
C8_UserRoleForbidden ==
    [][ (/\ Answered({"set-role"})
         /\ resp'.cred # NoCred
         /\ ServerSigned(resp'.cred)
         /\ Unexpired(resp'.cred, now)
         /\ ~resp'.cred.payload.refresh
         /\ resp'.cred.payload.jti \notin token_blacklist
         /\ users[resp'.cred.payload.user.email].exists
         /\ users[resp'.cred.payload.user.email].role = "user")
        => /\ resp'.status = HTTP_403
           /\ resp'.detail = "Operation not permitted"
           /\ users' = users ]_vars

C8_Witness ==
    /\ resp.n = steps
    /\ resp.ep = "set-role"
    /\ resp.status = HTTP_403
    /\ resp.cred \in Held
    /\ users[resp.cred.payload.user.email].exists
    /\ users[resp.cred.payload.user.email].role = "user"

\* C9: the access token of a pair authenticates at the instant of issue and is
\* rejected once more than ACCESS_TOKEN_EXPIRY seconds have passed; the refresh
\* token of the pair mints a new pair until REFRESH_TOKEN_EXPIRY days after
\* issue.
C9_SessionLifetime ==
    [][ \A i \in issued :
          (resp'.n # resp.n /\ resp'.cred = i.token)
          => LET token == i.token
                 user == users[token.payload.user.email] IN
             /\ (/\ resp'.ep = "me"
                 /\ ~token.payload.refresh
                 /\ now = i.at
                 /\ token.payload.jti \notin token_blacklist
                 /\ user.exists)
                => resp'.status = HTTP_200
             /\ (/\ resp'.ep = "me"
                 /\ ~token.payload.refresh
                 /\ now > i.at + ACCESS_TOKEN_EXPIRY * TicksPerSecond)
                => resp'.status = HTTP_401
             /\ (/\ resp'.ep = "refresh"
                 /\ token.payload.refresh
                 /\ now < i.at + RefreshLifetime * TicksPerSecond
                 /\ user.exists
                 /\ user.is_verified)
                => (resp'.status = HTTP_200 /\ resp'.pair # NoPair) ]_vars

\* C10: behind the access guard the checks run in the order extract, decode,
\* type, revocation, identity, role; the answer is that of the first check that
\* fails, and the handler runs (and the state changes) only when all pass.
AllowedAt(ep) == IF ep = "set-role" THEN {"admin"} ELSE {"admin", "user"}

C10_LinearGate ==
    [][ Answered(AccessEndpoints)
        => LET r == resp'
               c == resp'.cred IN
           IF c = NoCred
           THEN r.status \in {HTTP_401, HTTP_403} /\ r.detail = "Not authenticated"
                /\ Untouched
           ELSE IF ~ServerSigned(c) \/ ~Unexpired(c, now)
           THEN r.status = HTTP_401 /\ r.detail = "Invalid or expired token"
                /\ Untouched
           ELSE IF c.payload.refresh
           THEN r.status = HTTP_401 /\ r.detail = "Please provide an access token"
                /\ Untouched
           ELSE IF c.payload.jti \in token_blacklist
           THEN r.status = HTTP_401 /\ r.detail = "Token has been revoked"
                /\ Untouched
           ELSE IF r.ep = "logout"
           THEN r.status = HTTP_200
           ELSE IF ~users[c.payload.user.email].exists
           THEN r.status = HTTP_404 /\ r.detail = "User not found" /\ Untouched
           ELSE IF users[c.payload.user.email].role \notin AllowedAt(r.ep)
           THEN r.status = HTTP_403 /\ r.detail = "Operation not permitted"
                /\ Untouched
           ELSE IF r.ep = "me"
           THEN r.status = HTTP_200
           ELSE r.status \in {HTTP_200, HTTP_400, HTTP_404} ]_vars

\* A revoked token of a user who no longer exists: 401 "revoked", not 404.
C10_Witness ==
    /\ resp.n = steps
    /\ resp.ep \in {"me", "set-role"}
    /\ resp.cred \in Held
    /\ resp.status = HTTP_401
    /\ resp.detail = "Token has been revoked"
    /\ ~users[resp.cred.payload.user.email].exists

\* C11: under any interleaving of concurrent logout and guarded requests, the
\* id of every answered logout is in the registry, and every request that
\* arrives after the logout of its token's id was answered is rejected as
\* revoked.
C11_RegistryConcurrencySafe ==
    \A i \in 1..MaxTasks :
        tasks[i].pc = "done"
        => /\ (tasks[i].kind = "logout" /\ tasks[i].status = HTTP_200)
              => tasks[i].cred.payload.jti \in token_blacklist
           /\ (tasks[i].cred.payload.jti \in tasks[i].after)
              => /\ tasks[i].status = HTTP_401
                 /\ tasks[i].detail = "Token has been revoked"

\* A logout that was answered, and a request with the same token that arrived
\* after the answer and was rejected.
C11_Witness ==
    \E i \in 1..MaxTasks, j \in 1..MaxTasks :
        /\ tasks[i].pc = "done" /\ tasks[i].kind = "logout"
        /\ tasks[i].status = HTTP_200
        /\ tasks[j].pc = "done" /\ tasks[j].kind = "me"
        /\ tasks[j].cred = tasks[i].cred
        /\ tasks[j].cred.payload.jti \in tasks[j].after
        /\ tasks[j].status = HTTP_401
        /\ tasks[j].detail = "Token has been revoked"

\* C12: the registry is empty when a process starts, and a restart leaves it
\* empty: an access token that was revoked before a restart, is not revoked
\* again and has not expired, is accepted by the access guard after it.
C12_RestartClearsRevocations ==
    /\ (steps = 0 => token_blacklist = {})
    /\ [][ /\ (cleared' # cleared) => token_blacklist' = {}
           /\ (/\ Answered({"me"})
               /\ resp'.cred # NoCred
               /\ ServerSigned(resp'.cred)
               /\ Unexpired(resp'.cred, now)
               /\ ~resp'.cred.payload.refresh
               /\ resp'.cred.payload.jti \in cleared
               /\ resp'.cred.payload.jti \notin token_blacklist
               /\ users[resp'.cred.payload.user.email].exists)
              => resp'.status = HTTP_200 ]_vars

C12_Witness ==
    /\ resp.n = steps
    /\ resp.ep = "me"
    /\ resp.status = HTTP_200
    /\ resp.cred \in Held
    /\ resp.cred.payload.jti \in cleared
    /\ token_blacklist = {}

\* C13: within one process lifetime no step removes an id from the registry:
\* the set after a step is a superset of the set before it.
C13_RegistryOnlyGrows == [][token_blacklist \subseteq token_blacklist']_vars

\* Two revoked ids, one of a token that has since expired, both still there.
C13_Witness ==
    /\ Cardinality(token_blacklist) >= 2
    /\ \E i \in issued : /\ i.token.payload.jti \in token_blacklist
                         /\ i.at < now
                         /\ Expired(i.token.payload.exp, now)

\* C14: a request whose token passes decoding, the type check and the
\* revocation check, but whose email matches no row of the users table, is
\* answered 404 "User not found" by identity resolution, and the handler does
\* not run.
C14_UnknownIdentityNotFound ==
    [][ (/\ Answered({"me", "set-role"})
         /\ resp'.cred # NoCred
         /\ ServerSigned(resp'.cred)
         /\ Unexpired(resp'.cred, now)
         /\ ~resp'.cred.payload.refresh
         /\ resp'.cred.payload.jti \notin token_blacklist
         /\ ~users[resp'.cred.payload.user.email].exists)
        => /\ resp'.status = HTTP_404
           /\ resp'.detail = "User not found"
           /\ Untouched ]_vars

C14_Witness ==
    /\ resp.n = steps
    /\ resp.ep \in {"me", "set-role"}
    /\ resp.cred \in Held
    /\ ~resp.cred.payload.refresh
    /\ resp.cred.payload.jti \notin token_blacklist
    /\ Unexpired(resp.cred, now)
    /\ ~users[resp.cred.payload.user.email].exists
    /\ resp.status = HTTP_404
    /\ resp.detail = "User not found"

\* C15: a request to a guarded endpoint without an "Authorization: Bearer"
\* header is answered 401 by the access guard and by the refresh guard, and
\* nothing is decoded, changed or issued.
C15_MissingHeaderUnauthenticated ==
    [][ (/\ Answered(AccessEndpoints \cup {"refresh"})
         /\ resp'.cred = NoCred)
        => /\ resp'.status = HTTP_401
           /\ resp'.pair = NoPair
           /\ Untouched ]_vars

\* C16: decode_token answers every input: None for a string that is no JWT,
\* for a signature the server's key did not make and for an expired token, the
\* payload otherwise; and both guards answer a token that decodes to None with
\* 401 "Invalid or expired token", changing and issuing nothing.
Undecodable(token, t) ==
    \/ token.segments # 3
    \/ ~ServerSigned(token)
    \/ ~Unexpired(token, t)

C16_DecodeTotal ==
    [][ /\ (codec' # codec /\ codec'.used /\ codec'.presented # None)
           => codec'.decoded = IF Undecodable(codec'.presented, now) THEN None
                               ELSE codec'.presented.payload
        /\ (/\ resp'.n # resp.n
            /\ resp'.cred # NoCred
            /\ Undecodable(resp'.cred, now))
           => /\ resp'.status = HTTP_401
              /\ resp'.detail = "Invalid or expired token"
              /\ resp'.pair = NoPair
              /\ issued' = issued
              /\ Untouched ]_vars

\* An expired token decoded to None, and a guard's answer to a string that is
\* no JWT.
C16_Witness ==
    /\ codec.used
    /\ codec.presented = codec.token
    /\ Expired(codec.token.payload.exp, codec.decoded_at)
    /\ codec.decoded = None
    /\ resp.cred = Malformed
    /\ resp.status = HTTP_401
    /\ resp.detail = "Invalid or expired token"

\* C17: in every pair login and /refresh return, the token given as
\* access_token has refresh = FALSE and the one given as refresh_token has
\* refresh = TRUE; so has every token ever issued.
C17_PairTypeFlags ==
    /\ resp.pair # NoPair
       => /\ ~resp.pair.access_token.payload.refresh
          /\ resp.pair.refresh_token.payload.refresh
    /\ \A i \in issued :
          i.token.payload.refresh = (i.token.payload.jti # i.session)

\* A pair from login and a pair from /refresh.
C17_Witness ==
    /\ resp.ep = "refresh"
    /\ resp.pair # NoPair
    /\ \E i \in issued : i.token = resp.cred /\ i.session # resp.pair.access_token.payload.jti

\* C18: no two issued tokens carry the same jti, the two tokens of one pair
\* included.
C18_JtiUnique ==
    /\ \A i \in issued, j \in issued :
          i.token.payload.jti = j.token.payload.jti => i = j
    /\ resp.pair # NoPair
       => resp.pair.access_token.payload.jti # resp.pair.refresh_token.payload.jti

\* Tokens of three issuances, one of them revoked.
C18_Witness ==
    /\ Cardinality({ i.token.payload.jti : i \in issued }) >= 6
    /\ \E i \in issued : i.token.payload.jti \in token_blacklist

\* C19: whatever becomes of the mail (sent, an exception while sending, no
\* SMTP credentials), a signup with an acceptable password and a new email is
\* answered 201 with the account created, and a password-reset request is
\* answered 200 with its usual message.
C19_EmailBestEffort ==
    [][ /\ (/\ Answered({"signup"})
            /\ resp'.arg.password = StrongPassword
            /\ ~users[resp'.arg.email].exists)
           => /\ resp'.status = HTTP_201
              /\ users'[resp'.arg.email].exists
        /\ Answered({"reset-request"})
           => /\ resp'.status = HTTP_200
              /\ resp'.detail =
                    "If an account exists, password reset instructions have been sent"
              /\ users' = users ]_vars

\* An account whose verification mail raised, then a reset request for it with
\* no SMTP credentials configured.
C19_Witness ==
    /\ resp.ep = "reset-request"
    /\ resp.status = HTTP_200
    /\ users[resp.arg.email].exists
    /\ \E l \in links, m \in links :
          /\ l.purpose = "email-verification" /\ l.mail = "error"
          /\ l.token.payload.email = resp.arg.email
          /\ m.purpose = "password-reset" /\ m.mail = "unconfigured"
          /\ m.token.payload.email = resp.arg.email

\* C20: revoking an id puts it in the registry, and revoking an id that is
\* already there leaves the registry as it was: one revoke and any number of
\* revokes of the same id give the same registry.
C20_RevokeIdempotent ==
    [][ \A k \in Held :
          LET jti == k.payload.jti
              once == add_jti_to_blocklist(token_blacklist, jti) IN
          /\ jti \in once
          /\ add_jti_to_blocklist(once, jti) = once
          /\ revoke(jti)
             => /\ jti \in token_blacklist'
                /\ jti \in token_blacklist => token_blacklist' = token_blacklist ]_vars

\* A login followed by two revokes of one id.
C20_Witness ==
    /\ steps = 3
    /\ resp.n = 1
    /\ resp.ep = "login"
    /\ now = 0
    /\ users = SeededStore
    /\ Cardinality(token_blacklist) = 1

\* The step hands a token pair to the client.
PairIssued == resp'.n # resp.n /\ resp'.pair # NoPair

\* C21: no token pair is issued for an unverified or unauthenticated user.
\* Login issues a pair only when the user exists, the password verifies against
\* the stored hash and is_verified is true; it answers 401 "Invalid email or
\* password" when the user is missing or the password is wrong, whether or not
\* the account is verified, and 403 when the password is right and the account
\* is unverified. Refresh issues a pair only when the user of the token exists
\* and is verified. An account becomes verified through verify_email alone.
C21_NoPairUnlessVerified ==
    /\ [][ PairIssued
           => /\ resp'.ep \in {"login", "refresh"}
              /\ resp'.status = HTTP_200
              /\ issued' # issued
              /\ LET email == IF resp'.ep = "login" THEN resp'.arg.email
                              ELSE resp'.cred.payload.user.email IN
                 /\ users[email].exists
                 /\ users[email].is_verified
                 /\ resp'.ep = "login"
                    => users[email].password_hash =
                          generate_passwd_hash(resp'.arg.password)
                 /\ resp'.ep = "refresh"
                    => ServerSigned(resp'.cred) /\ resp'.cred.payload.refresh ]_vars
    /\ [][ Answered({"login"})
           => LET user == users[resp'.arg.email]
                  right == user.password_hash =
                              generate_passwd_hash(resp'.arg.password) IN
              /\ (~user.exists \/ ~right)
                 => /\ resp'.status = HTTP_401
                    /\ resp'.detail = "Invalid email or password"
                    /\ resp'.pair = NoPair
              /\ (user.exists /\ right /\ ~user.is_verified)
                 => resp'.status = HTTP_403 /\ resp'.pair = NoPair
              /\ (user.exists /\ right /\ user.is_verified)
                 => resp'.status = HTTP_200 /\ resp'.pair # NoPair ]_vars
    /\ [][ \A e \in Emails :
              (users'[e].is_verified /\ ~users[e].is_verified)
              => /\ resp'.ep = "verify"
                 /\ resp'.status = HTTP_200
                 /\ resp'.cred.payload.email = e ]_vars

\* A freshly signed-up account logs in with its password and is refused for
\* want of verification.
C21_Witness ==
    /\ resp.ep = "login"
    /\ resp.status = HTTP_403
    /\ resp.pair = NoPair
    /\ users[resp.arg.email].exists
    /\ ~users[resp.arg.email].is_verified
    /\ \E l \in links : /\ l.purpose = "email-verification"
                        /\ l.token.payload.email = resp.arg.email

\* C22: the response of password-reset-request does not reveal whether an
\* account exists. Whatever the request, its status and body are those the
\* handler gives, in the same state, to a request whose email has no account
\* and to one whose email has an account, for any outcome of the mail; only the
\* making of a reset link, which the client does not see, differs.
C22_ResetRequestSilent ==
    [][ Answered({"reset-request"})
        => LET seen == [status |-> resp'.status, detail |-> resp'.detail] IN
           /\ \A m \in SmtpOutcomes :
                 /\ seen = request_password_reset_response(NoUser, m)
                 /\ seen = request_password_reset_response(
                              SeededUser(2, "user", TRUE), m)
           /\ \A e \in Emails, m \in SmtpOutcomes :
                 seen = request_password_reset_response(
                           get_user_by_email(e, users), m)
           /\ resp'.pair = NoPair
           /\ resp'.detail =
                 "If an account exists, password reset instructions have been sent"
           /\ users' = users
           /\ links' # links => users[resp'.arg.email].exists
           /\ users[resp'.arg.email].exists
              => \E l \in links' : /\ l.purpose = "password-reset"
                                   /\ l.token.payload.email = resp'.arg.email
                                   /\ l.token.ts = Timestamp(now) ]_vars

\* A request for an email without an account is answered, after a request for
\* an email with an account made a link.
C22_Witness ==
    /\ resp.ep = "reset-request"
    /\ resp.status = HTTP_200
    /\ ~users[resp.arg.email].exists
    /\ \E l \in links : /\ l.purpose = "password-reset"
                        /\ users[l.token.payload.email].exists

\* The signup requests that have been answered.
SignupsDone ==
    { i \in 1..MaxTasks : tasks[i].pc = "done" /\ tasks[i].kind = "signup" }

\* C23: a signup with an email that already has an account is answered 409 and
\* creates nothing, also when signups for one email run concurrently: after any
\* interleaving there is at most one account per email, and every signup with
\* an acceptable password that did not create the account is answered 409.
C23_SignupRaceConflict ==
    /\ \A e \in Emails :
          Cardinality({ i \in SignupsDone :
                           tasks[i].created /\ tasks[i].arg.email = e }) <= 1
    /\ \A i \in SignupsDone :
          /\ tasks[i].created <=> tasks[i].status = HTTP_201
          /\ (/\ validate_password_strength(tasks[i].arg.password)
              /\ ~tasks[i].created)
             => tasks[i].status = HTTP_409

\* The link token carries the server's signature for the reset purpose.
ResetSigned(token) ==
    token.sig = Sign(<<JWT_SECRET, "password-reset">>, <<token.payload, token.ts>>)

\* C24: confirm_password_reset changes a stored password hash only when the
\* two passwords are equal, the new password is strong, the link token is
\* valid for the purpose "password-reset" and a user with the token's email
\* exists; then the hash of that user alone is replaced by the hash of the
\* new password. Each rejected request (400 mismatch, 400 weak password, 400
\* invalid token, 404 user not found, tested in this order) leaves the users
\* table as it was, and no other request changes the hash of an account.
C24_ResetChangesHashOnlyWhenChecked ==
    /\ [][ Answered({"reset-confirm"})
           => LET token == resp'.cred
                  match == resp'.arg.new_password = resp'.arg.confirm_new_password
                  strong == validate_password_strength(resp'.arg.new_password)
                  valid == ResetSigned(token)
                  found == users[token.payload.email].exists IN
              /\ ~match
                 => /\ resp'.status = HTTP_400
                    /\ resp'.detail = "Passwords do not match"
              /\ (match /\ ~strong)
                 => /\ resp'.status = HTTP_400
                    /\ resp'.detail = "Password must be stronger"
              /\ (match /\ strong /\ ~valid)
                 => /\ resp'.status = HTTP_400
                    /\ resp'.detail = "Invalid or expired token"
              /\ (match /\ strong /\ valid /\ ~found)
                 => resp'.status = HTTP_404
              /\ ~(match /\ strong /\ valid /\ found) => users' = users
              /\ (match /\ strong /\ valid /\ found)
                 => /\ resp'.status = HTTP_200
                    /\ users' =
                          [users EXCEPT ![token.payload.email].password_hash =
                              generate_passwd_hash(resp'.arg.new_password)] ]_vars
    /\ [][ \A e \in Emails :
              (/\ users[e].exists
               /\ users'[e].exists
               /\ users'[e].uid = users[e].uid
               /\ users'[e].password_hash # users[e].password_hash)
              => /\ resp'.ep = "reset-confirm"
                 /\ resp'.status = HTTP_200
                 /\ resp'.cred.payload.email = e ]_vars

\* A reset has replaced the password of the account named in the link.
C24_Witness ==
    /\ resp.ep = "reset-confirm"
    /\ resp.status = HTTP_200
    /\ users[resp.cred.payload.email].password_hash =
          generate_passwd_hash(OtherPassword)
    /\ \E e \in Emails :
          /\ e # resp.cred.payload.email
          /\ users[e].exists
          /\ users[e].password_hash = generate_passwd_hash(StrongPassword)

\* The endpoints that read or write the rows of one client, and the table each
\* of them works on.
ClientReads ==
    {"get_client_sessions", "get_client_progress", "get_client_workout_plans",
     "get_client_assessments"}
ClientEndpoints == ClientReads \cup {"create_progress_entry"}
KindOf(ep) ==
    CASE ep = "get_client_sessions" -> "session"
      [] ep = "get_client_workout_plans" -> "plan"
      [] ep = "get_client_assessments" -> "assessment"
      [] OTHER -> "progress"

\* The credential is an access token of the server that is neither expired nor
\* revoked, for an email that has an account.
Authenticated(cred) ==
    /\ cred # NoCred
    /\ ServerSigned(cred)
    /\ ~cred.payload.refresh
    /\ Unexpired(cred, now)
    /\ cred.payload.jti \notin token_blacklist
    /\ users[cred.payload.user.email].exists

\* C25: client data is owner-scoped. An authenticated user whose stored role is
\* not admin reads sessions, progress entries, workout plans and assessments,
\* and creates progress entries, for their own uid only: for any other
\* client_uid the answer is 403, nothing is returned and nothing is stored. A
\* user whose stored role is admin does so for any client_uid. What a read
\* returns is exactly the rows of the table that belong to the client named.
C25_ClientDataOwnerScoped ==
    [][ Answered(ClientEndpoints)
        => LET ep == resp'.ep
               client_uid == resp'.arg.client_uid
               mine == rows_by_client(coaching.rows, KindOf(ep), client_uid) IN
           /\ \A r \in coaching'.returned : r.client_uid = client_uid
           /\ ~Authenticated(resp'.cred)
              => /\ resp'.status # HTTP_200
                 /\ coaching'.returned = {}
                 /\ coaching'.rows = coaching.rows
           /\ Authenticated(resp'.cred)
              => LET me == users[resp'.cred.payload.user.email] IN
                 /\ (me.role # "admin" /\ me.uid # client_uid)
                    => /\ resp'.status = HTTP_403
                       /\ coaching'.returned = {}
                       /\ coaching'.rows = coaching.rows
                 /\ (me.role = "admin" \/ me.uid = client_uid)
                    => /\ resp'.status = HTTP_200
                       /\ ep \in ClientReads
                          => /\ coaching'.returned = mine
                             /\ coaching'.rows = coaching.rows
                       /\ ep = "create_progress_entry"
                          => /\ Cardinality(coaching'.returned) = 1
                             /\ coaching'.returned \cap coaching.rows = {}
                             /\ coaching'.rows =
                                   coaching.rows \cup coaching'.returned
                             /\ \A r \in coaching'.returned :
                                   r.kind = "progress" ]_vars

\* An account whose token says admin and whose stored role is user asks for
\* the rows of another client, which exist, and gets 403 and no rows.
C25_Witness ==
    /\ resp.ep \in ClientReads
    /\ resp.status = HTTP_403
    /\ resp.cred # NoCred
    /\ ServerSigned(resp.cred)
    /\ resp.cred.payload.user.role = "admin"
    /\ users[resp.cred.payload.user.email].role = "user"
    /\ users[resp.cred.payload.user.email].uid # resp.arg.client_uid
    /\ rows_by_client(coaching.rows, KindOf(resp.ep), resp.arg.client_uid) # {}
    /\ coaching.returned = {}

\* The operations behind RoleChecker(["admin"]).
AdminEndpoints ==
    {"create_coaching_session", "update_coaching_session", "create_exercise",
     "update_exercise", "create_workout_plan", "add_exercise_to_plan",
     "create_assessment", "set-role"}

\* C26: an admin-only operation (create or update a coaching session, create
\* or update an exercise, create a workout plan, add an exercise to a plan,
\* create an assessment, set a role) changes stored state only when the stored
\* role of the requester is admin at the time of the request. A request by an
\* authenticated user whose stored role is not admin is answered 403 and
\* leaves the coaching tables and the users table as they were; so does a
\* request that is not authenticated. Roles change through set-role alone, and
\* the coaching tables through these operations and create_progress_entry.
C26_AdminOnlyWrites ==
    /\ [][ Answered(AdminEndpoints)
           => LET stored == users[resp'.cred.payload.user.email] IN
              /\ (coaching'.rows # coaching.rows \/ users' # users)
                 => /\ Authenticated(resp'.cred)
                    /\ stored.role = "admin"
                    /\ resp'.status = HTTP_200
              /\ (Authenticated(resp'.cred) /\ stored.role # "admin")
                 => /\ resp'.status = HTTP_403
                    /\ resp'.detail = "Operation not permitted"
                    /\ coaching'.rows = coaching.rows
                    /\ users' = users
              /\ ~Authenticated(resp'.cred)
                 => /\ resp'.status \in {HTTP_401, HTTP_403, HTTP_404}
                    /\ coaching'.rows = coaching.rows
                    /\ users' = users ]_vars
    /\ [][ (\E e \in Emails : users'[e].role # users[e].role)
           => resp'.n # resp.n /\ resp'.ep = "set-role" ]_vars
    /\ [][ coaching'.rows # coaching.rows
           => /\ resp'.n # resp.n
              /\ resp'.ep \in AdminEndpoints \cup {"create_progress_entry"} ]_vars

\* An account whose token says admin and whose stored role is user asks for an
\* admin-only write to the coaching tables and is refused.
C26_Witness ==
    /\ resp.ep \in AdminEndpoints \ {"set-role"}
    /\ resp.status = HTTP_403
    /\ resp.detail = "Operation not permitted"
    /\ resp.cred # NoCred
    /\ ServerSigned(resp.cred)
    /\ resp.cred.payload.user.role = "admin"
    /\ users[resp.cred.payload.user.email].role = "user"
    /\ coaching.rows = SeededRows

\* C27: a logout with a decoded access token that carries no jti is answered
\* 400 "Invalid token" and leaves the revocation set unchanged; 500 "Failed to
\* logout" is the answer only when adding the jti to the blocklist fails,
\* which set.add never does.
C27_LogoutWithoutJtiBadRequest ==
    [][ Answered({"logout"})
        => /\ (/\ resp'.cred # NoCred
               /\ ServerSigned(resp'.cred)
               /\ ~resp'.cred.payload.refresh
               /\ Unexpired(resp'.cred, now)
               /\ resp'.cred.payload.jti = 0)
              => /\ resp'.status = HTTP_400
                 /\ resp'.detail = "Invalid token"
                 /\ token_blacklist' = token_blacklist
           /\ resp'.status # HTTP_500 ]_vars

\* C28: from a user store without an admin, no sequence of requests to the API
\* (signup, verify, login, refresh, logout, password reset, set-role, the
\* coaching endpoints) reaches a state in which some user has the role admin.
C28_NoAdminArises == \A e \in Emails : users[e].role # "admin"

\* An account made by signup, verified and logged in asks for set-role and is
\* refused.
C28_Witness ==
    /\ resp.ep = "set-role"
    /\ resp.status = HTTP_403
    /\ resp.cred # NoCred
    /\ ServerSigned(resp.cred)
    /\ users[resp.cred.payload.user.email].exists
    /\ users[resp.cred.payload.user.email].uid > 2
    /\ users[resp.cred.payload.user.email].is_verified

====
